---- MODULE Spec2Model ----
(***************************************************************************)
(* Secret-encryption subsystem: CryptoService / CryptoManager (ENC2 wire   *)
(* format, Argon2 key derivation, AES-GCM, HMAC), EnvironmentFileParser    *)
(* (line oriented env file) and EncryptionManager (the orchestrated run).  *)
(*                                                                         *)
(* Strings are sequences of one-character strings, byte buffers are        *)
(* sequences of 0..255.  The library primitives (argon2.hash,              *)
(* crypto.subtle.encrypt/decrypt/sign) are modelled as ideal primitives by *)
(* small keyed digests: deterministic, and changed by any change of one    *)
(* byte of their input.                                                    *)
(***************************************************************************)
EXTENDS Integers, Sequences, FiniteSets, TLC

(***************************************************************************)
(* Characters and strings                                                  *)
(***************************************************************************)

\* printable ASCII, code 32 .. 126, in code order (code 96, the grave accent,
\* cannot be written in a string here and is named instead)
Ascii ==
  << " ", "!", "\"", "#", "$", "%", "&", "'", "(", ")", "*", "+", ",", "-", ".", "/",
     "0", "1", "2", "3", "4", "5", "6", "7", "8", "9", ":", ";", "<", "=", ">", "?",
     "@", "A", "B", "C", "D", "E", "F", "G", "H", "I", "J", "K", "L", "M", "N", "O",
     "P", "Q", "R", "S", "T", "U", "V", "W", "X", "Y", "Z", "[", "\\", "]", "^", "_",
     "GRAVE", "a", "b", "c", "d", "e", "f", "g", "h", "i", "j", "k", "l", "m", "n", "o",
     "p", "q", "r", "s", "t", "u", "v", "w", "x", "y", "z", "{", "|", "}", "~" >>

AsciiSet == { Ascii[i] : i \in 1..Len(Ascii) }

\* String.prototype.charCodeAt for the characters of the model
CharCodeTable ==
  [c \in AsciiSet \cup {"\t", "\n", "\r"} |->
     IF c = "\t" THEN 9
     ELSE IF c = "\n" THEN 10
     ELSE IF c = "\r" THEN 13
     ELSE 31 + (CHOOSE i \in 1..Len(Ascii) : Ascii[i] = c)]

CharCode(c) == CharCodeTable[c]

\* String.fromCharCode for a byte; bytes outside the table decode to U+FFFD,
\* written "?" here (TextDecoder replaces ill-formed input)
FromCharCode(b) ==
  IF b >= 32 /\ b <= 126 THEN Ascii[b - 31]
  ELSE IF b = 9 THEN "\t"
  ELSE IF b = 10 THEN "\n"
  ELSE IF b = 13 THEN "\r"
  ELSE "?"

WhiteSpace == {" ", "\t", "\n", "\r"}

\* String.prototype.trim
Trim(s) ==
  LET kept == { i \in 1..Len(s) : s[i] \notin WhiteSpace }
  IN  IF kept = {} THEN <<>>
      ELSE SubSeq(s, CHOOSE i \in kept : \A j \in kept : i <= j,
                     CHOOSE i \in kept : \A j \in kept : j <= i)

\* String.prototype.startsWith
StartsWith(s, p) == Len(s) >= Len(p) /\ SubSeq(s, 1, Len(p)) = p

\* String.prototype.indexOf for one character, 1-based, 0 when absent
IndexOf(s, c) ==
  LET at == { i \in 1..Len(s) : s[i] = c }
  IN  IF at = {} THEN 0 ELSE CHOOSE i \in at : \A j \in at : i <= j

\* String.prototype.split on a one-character separator
Split(s, sep) ==
  LET at == { i \in 1..Len(s) : s[i] = sep }
      \* the position of the k-th separator; 0 before the first, Len(s) + 1
      \* after the last
      Cut(k) == IF k = 0 THEN 0
                ELSE IF k > Cardinality(at) THEN Len(s) + 1
                ELSE CHOOSE i \in at : Cardinality({ j \in at : j < i }) = k - 1
  IN  [k \in 1..(Cardinality(at) + 1) |-> SubSeq(s, Cut(k - 1) + 1, Cut(k) - 1)]

\* Array.prototype.join
RECURSIVE Join(_, _)
Join(parts, sep) ==
  IF parts = <<>> THEN <<>>
  ELSE IF Len(parts) = 1 THEN parts[1]
  ELSE parts[1] \o sep \o Join(Tail(parts), sep)

\* TextEncoder.encode / TextDecoder.decode on the characters of the model
TextEncode(s) == [i \in 1..Len(s) |-> CharCode(s[i])]

TextDecode(b) == [i \in 1..Len(b) |-> FromCharCode(b[i])]

(***************************************************************************)
(* Base64 (Buffer.toString('base64') / Buffer.from(s, 'base64'))           *)
(***************************************************************************)

Base64Alphabet ==
  << "A", "B", "C", "D", "E", "F", "G", "H", "I", "J", "K", "L", "M", "N", "O", "P",
     "Q", "R", "S", "T", "U", "V", "W", "X", "Y", "Z", "a", "b", "c", "d", "e", "f",
     "g", "h", "i", "j", "k", "l", "m", "n", "o", "p", "q", "r", "s", "t", "u", "v",
     "w", "x", "y", "z", "0", "1", "2", "3", "4", "5", "6", "7", "8", "9", "+", "/" >>

Base64Chars == { Base64Alphabet[i] : i \in 1..64 }

Base64ValueTable ==
  [c \in Base64Chars |-> (CHOOSE i \in 1..64 : Base64Alphabet[i] = c) - 1]

Base64Value(c) == Base64ValueTable[c]

Base64Char(v) == Base64Alphabet[v + 1]

\* Buffer.prototype.toString('base64'): 3 bytes -> 4 characters, '=' padded
Base64Encode(b) ==
  LET n == Len(b)
      Byte(i) == IF i <= n THEN b[i] ELSE 0
  IN  [k \in 1..(4 * ((n + 2) \div 3)) |->
         LET g == (k - 1) \div 4
             j == (k - 1) % 4
             b1 == Byte(3 * g + 1)
             b2 == Byte(3 * g + 2)
             b3 == Byte(3 * g + 3)
         IN  IF j = 0 THEN Base64Char(b1 \div 4)
             ELSE IF j = 1 THEN Base64Char((b1 % 4) * 16 + b2 \div 16)
             ELSE IF j = 2 THEN
               (IF 3 * g + 2 > n THEN "=" ELSE Base64Char((b2 % 16) * 4 + b3 \div 64))
             ELSE
               (IF 3 * g + 3 > n THEN "=" ELSE Base64Char(b3 % 64))]

\* the characters of s before the first '='
Base64Data(s) ==
  LET i == IndexOf(s, "=") IN IF i = 0 THEN s ELSE SubSeq(s, 1, i - 1)

\* Buffer.from(s, 'base64') on the base64 characters d: every 4 characters
\* give 3 bytes, a trailing group of 3 gives 2 bytes and of 2 gives 1 byte;
\* the unused low bits of the last character are dropped
Base64DecodeData(d) ==
  [k \in 1..((Len(d) * 3) \div 4) |->
     LET c == (8 * (k - 1)) \div 6 + 1
         off == (8 * (k - 1)) % 6
         v1 == Base64Value(d[c])
         v2 == Base64Value(d[c + 1])
     IN  IF off = 0 THEN v1 * 4 + v2 \div 16
         ELSE IF off = 2 THEN (v1 % 16) * 16 + v2 \div 4
         ELSE (v1 % 4) * 64 + v2]

\* Buffer.from(s, 'base64'): characters outside the alphabet are skipped and
\* decoding stops at the first '='
Base64Decode(s) ==
  Base64DecodeData(SelectSeq(Base64Data(s), LAMBDA c : c \in Base64Chars))

\* RegExp /^[A-Za-z0-9+/]*={0,2}$/ of isValidBase64
MatchesBase64Regex(s) ==
  \E n \in 0..2 :
    /\ n <= Len(s)
    /\ \A i \in 1..(Len(s) - n) : s[i] \in Base64Chars
    /\ \A i \in (Len(s) - n + 1)..Len(s) : s[i] = "="

\* a check of the characters alone
isValidBase64_RegexOnly(value) ==
  /\ value # <<>>
  /\ MatchesBase64Regex(value)

\* CryptoManager.isValidBase64; Buffer.from(value, 'base64') never throws
isValidBase64(value) ==
  /\ value # <<>>
  /\ MatchesBase64Regex(value)
  /\ Len(value) % 4 = 0

(***************************************************************************)
(* Security constants                                                      *)
(***************************************************************************)

WEB_CRYPTO_IV == 12
SALT == 32
SECRET_KEY == 32
HMAC_KEY_LENGTH == 32
EXPECTED_PARTS == 4
MIN_SECRET_KEY_LENGTH == 16
\* AES-GCM's authentication tag, appended to the ciphertext by crypto.subtle
GCM_TAG_LENGTH == 16

PREFIX == << "E", "N", "C", "2", ":" >>
SEPARATOR == ":"

(***************************************************************************)
(* Results of operations that may throw                                    *)
(***************************************************************************)

Ok(v) == [ok |-> TRUE, value |-> v, error |-> "none"]
Err(e) == [ok |-> FALSE, value |-> <<>>, error |-> e]

(***************************************************************************)
(* Library primitives, as ideal primitives                                 *)
(***************************************************************************)

DigestModulus == 65521

\* the sum of f over lo..hi
RECURSIVE SumRange(_, _, _)
SumRange(f, lo, hi) ==
  IF lo > hi THEN 0
  ELSE IF lo = hi THEN f[lo]
  ELSE LET mid == (lo + hi) \div 2
       IN  SumRange(f, lo, mid) + SumRange(f, mid + 1, hi)

\* a digest of a byte sequence: a weighted sum modulo a prime, every weight
\* being invertible, so that two inputs of one length differing in one byte
\* have different digests
Digest(b) ==
  (Len(b) * 977
   + SumRange([i \in 1..Len(b) |-> ((b[i] + 1) * (131 * i + 7)) % DigestModulus],
              1, Len(b))) % DigestModulus

\* n bytes determined by, and determining, the digest d
Expand(d, n) ==
  [i \in 1..n |->
     IF i = 1 THEN d % 256
     ELSE IF i = 2 THEN d \div 256
     ELSE (d * i + 7 * i) % 256]

\* a derivation in which the secret key plays no part
argon2Hashing_SaltOnly(secretKey, saltBuffer) ==
  IF Len(saltBuffer) < 8 THEN Err("KeyDerivationError")
  ELSE Ok(Expand(Digest(<< 1 >> \o saltBuffer), SECRET_KEY)
          \o Expand(Digest(<< 2 >> \o saltBuffer), HMAC_KEY_LENGTH))

\* argon2.hash(secretKey, {salt, hashLength: 64, raw: true}); the library
\* rejects a salt shorter than 8 bytes
argon2Hashing(secretKey, saltBuffer) ==
  IF Len(saltBuffer) < 8 THEN Err("KeyDerivationError")
  ELSE
    LET material == TextEncode(secretKey) \o << 255 >> \o saltBuffer
    IN  Ok(Expand(Digest(<< 1 >> \o material), SECRET_KEY)
           \o Expand(Digest(<< 2 >> \o material), HMAC_KEY_LENGTH))

\* the AES-GCM key stream of (key, iv), one byte per plaintext byte
KeyStream(key, iv, n) == Expand(Digest(<< 3 >> \o key \o iv), n)

\* the AES-GCM authentication tag of (key, iv, ciphertext body)
GcmTag(key, iv, body) == Expand(Digest(<< 4 >> \o key \o iv \o body), GCM_TAG_LENGTH)

\* crypto.subtle.encrypt({name: 'AES-GCM', iv}, key, TextEncoder.encode(value))
encryptBuffer(webCryptoIv, key, value) ==
  LET plain == TextEncode(value)
      ks == KeyStream(key, webCryptoIv, Len(plain))
      body == [i \in 1..Len(plain) |-> (plain[i] + ks[i]) % 256]
  IN  body \o GcmTag(key, webCryptoIv, body)

\* a decryption that does not check the authentication tag
decryptBuffer_Unauthenticated(ivBuffer, key, cipherBuffer) ==
  IF Len(cipherBuffer) < GCM_TAG_LENGTH THEN Err("OperationError")
  ELSE
    LET n == Len(cipherBuffer) - GCM_TAG_LENGTH
        ks == KeyStream(key, ivBuffer, n)
    IN  Ok([i \in 1..n |-> (cipherBuffer[i] - ks[i] + 256) % 256])

\* crypto.subtle.decrypt({name: 'AES-GCM', iv}, key, cipherBuffer): throws an
\* OperationError unless the tag at the end of cipherBuffer is the tag of
\* the body under (key, iv)
decryptBuffer(ivBuffer, key, cipherBuffer) ==
  IF Len(cipherBuffer) < GCM_TAG_LENGTH THEN Err("OperationError")
  ELSE
    LET n == Len(cipherBuffer) - GCM_TAG_LENGTH
        body == SubSeq(cipherBuffer, 1, n)
        tag == SubSeq(cipherBuffer, n + 1, Len(cipherBuffer))
        ks == KeyStream(key, ivBuffer, n)
    IN  IF tag # GcmTag(key, ivBuffer, body) THEN Err("OperationError")
        ELSE Ok([i \in 1..n |-> (body[i] - ks[i] + 256) % 256])

\* a signature cut to its first half
computeHMAC_Truncated(key, data) ==
  Base64Encode(Expand(Digest(<< 5 >> \o key \o data), HMAC_KEY_LENGTH \div 2))

\* crypto.subtle.sign('HMAC', key, data), base64 encoded
computeHMAC(key, data) ==
  Base64Encode(Expand(Digest(<< 5 >> \o key \o data), HMAC_KEY_LENGTH))


\* crypto.randomBytes(n) / crypto.getRandomValues: the outcome numbered seed
RandomBytes(seed, n) == [i \in 1..n |-> (seed * 53 + i * 29) % 256]

(***************************************************************************)
(* CryptoManager                                                           *)
(***************************************************************************)

\* CryptoManager.isEncrypted
isEncrypted(value) ==
  /\ value # <<>>
  /\ StartsWith(value, PREFIX)
  /\ LET parts == Split(SubSeq(value, Len(PREFIX) + 1, Len(value)), SEPARATOR)
     IN  /\ Len(parts) = EXPECTED_PARTS
         /\ \A i \in 1..Len(parts) : parts[i] # <<>> /\ isValidBase64(parts[i])

\* CryptoManager.getSecretKeyFromEnvironment: the value stored under the
\* secret key variable in the base environment file (empty when absent)
getSecretKeyFromEnvironment(stored) ==
  IF stored = <<>> THEN Err("SecretKeyNotFound") ELSE Ok(stored)

\* CryptoManager.validateSecretKey
validateSecretKey(secretKey) ==
  IF secretKey = <<>> THEN Err("SecretKeyEmpty")
  ELSE IF Len(secretKey) < MIN_SECRET_KEY_LENGTH THEN Err("SecretKeyTooShort")
  ELSE Ok(secretKey)

\* CryptoManager.validateInputs
validateInputs(value, secretKey) ==
  IF value = <<>> THEN Err("ValueEmpty")
  ELSE IF secretKey = <<>> THEN Err("SecretKeyEmpty")
  ELSE Ok(value)

\* the bitwise operators of constantTimeCompare
RECURSIVE BitXor(_, _)
BitXor(a, b) ==
  IF a = 0 THEN b
  ELSE IF b = 0 THEN a
  ELSE (((a % 2) + (b % 2)) % 2) + 2 * BitXor(a \div 2, b \div 2)

RECURSIVE BitOr(_, _)
BitOr(a, b) ==
  IF a = 0 THEN b
  ELSE IF b = 0 THEN a
  ELSE (IF a % 2 = 1 \/ b % 2 = 1 THEN 1 ELSE 0) + 2 * BitOr(a \div 2, b \div 2)

\* the loop of constantTimeCompare over positions lo..hi: comparisonResult,
\* the bitwise or of the xor of the two characters at each position
RECURSIVE CompareRange(_, _, _, _)
CompareRange(firstValue, secondValue, lo, hi) ==
  IF lo > hi THEN 0
  ELSE IF lo = hi
    THEN BitXor(CharCode(firstValue[lo]), CharCode(secondValue[lo]))
  ELSE LET mid == (lo + hi) \div 2
       IN  BitOr(CompareRange(firstValue, secondValue, lo, mid),
                 CompareRange(firstValue, secondValue, mid + 1, hi))

\* CryptoManager.constantTimeCompare
constantTimeCompare(firstValue, secondValue) ==
  IF Len(firstValue) # Len(secondValue) THEN FALSE
  ELSE CompareRange(firstValue, secondValue, 1, Len(firstValue)) = 0

\* CryptoManager.validateBase64String
validateBase64String(value) ==
  IF value = <<>> THEN Err("InvalidSalt")
  ELSE IF ~isValidBase64(value) THEN Err("InvalidSalt")
  ELSE Ok(value)

\* CryptoManager.deriveKeysWithArgon2: the 64 derived bytes, split in two
deriveKeysWithArgon2(secretKey, salt) ==
  LET Split64(derived) ==
        IF ~derived.ok THEN derived
        ELSE Ok([encryptionKey |-> SubSeq(derived.value, 1, SECRET_KEY),
                 hmacKey |-> SubSeq(derived.value, SECRET_KEY + 1, Len(derived.value))])
      Derive(validated) ==
        IF ~validated.ok THEN validated
        ELSE Split64(argon2Hashing(secretKey, Base64Decode(salt)))
  IN  Derive(validateBase64String(salt))

\* CryptoManager.validateEncryptionPrerequisites
validateEncryptionPrerequisites(value, stored) ==
  LET Validate(actualSecretKey, keyCheck, inputCheck) ==
        IF ~actualSecretKey.ok THEN actualSecretKey
        ELSE IF ~keyCheck.ok THEN keyCheck
        ELSE IF ~inputCheck.ok THEN inputCheck
        ELSE actualSecretKey
      WithSecretKey(actualSecretKey) ==
        Validate(actualSecretKey, validateSecretKey(actualSecretKey.value),
                 validateInputs(value, actualSecretKey.value))
  IN  WithSecretKey(getSecretKeyFromEnvironment(stored))

\* SecureKeyGenerator.generateBase64Salt / generateWebCryptoIV
generateBase64Salt(seed) == Base64Encode(RandomBytes(seed, SALT))
generateWebCryptoIV(seed) == RandomBytes(seed, WEB_CRYPTO_IV)

\* components whose salt and IV are those of an earlier call, whatever the
\* generators return for this one
generateEncryptionComponents_CarriedOver(secretKey, saltSeed, ivSeed) ==
  LET Components(salt, keys) ==
        IF ~keys.ok THEN keys
        ELSE Ok([salt |-> salt,
                 webCryptoIv |-> generateWebCryptoIV(1),
                 encryptionKey |-> keys.value.encryptionKey,
                 hmacKey |-> keys.value.hmacKey])
      WithSalt(salt) == Components(salt, deriveKeysWithArgon2(secretKey, salt))
  IN  WithSalt(generateBase64Salt(0))

\* CryptoManager.generateEncryptionComponents
generateEncryptionComponents(secretKey, saltSeed, ivSeed) ==
  LET Components(salt, keys) ==
        IF ~keys.ok THEN keys
        ELSE Ok([salt |-> salt,
                 webCryptoIv |-> generateWebCryptoIV(ivSeed),
                 encryptionKey |-> keys.value.encryptionKey,
                 hmacKey |-> keys.value.hmacKey])
      WithSalt(salt) == Components(salt, deriveKeysWithArgon2(secretKey, salt))
  IN  WithSalt(generateBase64Salt(saltSeed))

\* CryptoManager.prepareHMACData
prepareHMACData(salt, iv, cipherText) ==
  Base64Decode(salt) \o Base64Decode(iv) \o Base64Decode(cipherText)

\* a payload with the salt and iv segments in each other's place
formatEncryptedPayload_Swapped(salt, iv, cipherText, hmacBase64) ==
  PREFIX \o iv \o << ":" >> \o salt \o << ":" >> \o cipherText \o << ":" >> \o hmacBase64

\* CryptoManager.formatEncryptedPayload
formatEncryptedPayload(salt, iv, cipherText, hmacBase64) ==
  PREFIX \o salt \o << ":" >> \o iv \o << ":" >> \o cipherText \o << ":" >> \o hmacBase64

\* CryptoManager.createEncryptedPayload
createEncryptedPayload(value, salt, webCryptoIv, encryptionKey, hmacKey) ==
  LET Payload(cipherText, iv) ==
        formatEncryptedPayload(salt, iv, cipherText,
          computeHMAC(hmacKey, prepareHMACData(salt, iv, cipherText)))
  IN  Payload(Base64Encode(encryptBuffer(webCryptoIv, encryptionKey, value)),
              Base64Encode(webCryptoIv))

\* CryptoManager.parseEncryptedData with validateEncryptedFormat,
\* validatePartCount, validateRequiredParts and validateBase64Components
parseEncryptedData(encryptedData) ==
  LET Validate(parts) ==
        IF Len(parts) # EXPECTED_PARTS THEN Err("InvalidPartCount")
        ELSE IF \E i \in 1..EXPECTED_PARTS : parts[i] = <<>> THEN Err("MissingComponents")
        ELSE IF ~isValidBase64(parts[1]) THEN Err("InvalidSaltFormat")
        ELSE IF ~isValidBase64(parts[2]) THEN Err("InvalidIVFormat")
        ELSE IF ~isValidBase64(parts[3]) THEN Err("InvalidCipherTextFormat")
        ELSE IF ~isValidBase64(parts[4]) THEN Err("InvalidHMACFormat")
        ELSE Ok([salt |-> parts[1], iv |-> parts[2],
                 cipherText |-> parts[3], receivedHmac |-> parts[4]])
  IN  IF ~StartsWith(encryptedData, PREFIX) THEN Err("MissingPrefix")
      ELSE Validate(Split(SubSeq(encryptedData, Len(PREFIX) + 1, Len(encryptedData)),
                          SEPARATOR))

\* CryptoManager.verifyHMAC: the promise it returns, fulfilled (ok) or
\* rejected with the authentication error
verifyHMAC(salt, iv, cipherText, receivedHmac, hmacKey) ==
  LET computedHmac == computeHMAC(hmacKey, prepareHMACData(salt, iv, cipherText))
  IN  IF ~constantTimeCompare(computedHmac, receivedHmac)
      THEN Err("HMACMismatch")
      ELSE Ok(<<>>)

\* CryptoManager.performDecryption
performDecryption(iv, encryptionKey, cipherText) ==
  decryptBuffer(Base64Decode(iv), encryptionKey, Base64Decode(cipherText))

(***************************************************************************)
(* CryptoService                                                           *)
(***************************************************************************)

\* CryptoService.encrypt: the promise it returns
encrypt(value, stored, saltSeed, ivSeed) ==
  LET WithComponents(c) ==
        IF ~c.ok THEN c
        ELSE Ok(createEncryptedPayload(value, c.value.salt, c.value.webCryptoIv,
                  c.value.encryptionKey, c.value.hmacKey))
      WithSecretKey(secretKey) ==
        IF ~secretKey.ok THEN secretKey
        ELSE WithComponents(
               generateEncryptionComponents(secretKey.value, saltSeed, ivSeed))
  IN  WithSecretKey(validateEncryptionPrerequisites(value, stored))

\* the outcome of CryptoService.decrypt: the promise it returns, and hmac,
\* the promise of the verifyHMAC call ("notRun", "verified" or "mismatch")
DecryptOutcome(res, hmac) ==
  [ok |-> res.ok, value |-> res.value, error |-> res.error, hmac |-> hmac]

\* CryptoService.decrypt.  verifyHMAC is async and its promise is not
\* awaited: its rejection does not reach the try/catch of decrypt, and
\* performDecryption runs whatever the verification finds
decrypt(encryptedData, stored) ==
  LET Finish(verification, decryptedBuffer) ==
        IF ~decryptedBuffer.ok
        THEN DecryptOutcome(decryptedBuffer,
                            IF verification.ok THEN "verified" ELSE "mismatch")
        ELSE DecryptOutcome(Ok(TextDecode(decryptedBuffer.value)),
                            IF verification.ok THEN "verified" ELSE "mismatch")
      WithKeys(p, keys) ==
        IF ~keys.ok THEN DecryptOutcome(keys, "notRun")
        ELSE Finish(verifyHMAC(p.salt, p.iv, p.cipherText, p.receivedHmac,
                               keys.value.hmacKey),
                    performDecryption(p.iv, keys.value.encryptionKey, p.cipherText))
      WithParsed(secretKey, parsed) ==
        IF ~parsed.ok THEN DecryptOutcome(parsed, "notRun")
        ELSE WithKeys(parsed.value, deriveKeysWithArgon2(secretKey, parsed.value.salt))
      Validate(actualSecretKey, keyCheck, inputCheck) ==
        IF ~actualSecretKey.ok THEN DecryptOutcome(actualSecretKey, "notRun")
        ELSE IF ~keyCheck.ok THEN DecryptOutcome(keyCheck, "notRun")
        ELSE IF ~inputCheck.ok THEN DecryptOutcome(inputCheck, "notRun")
        ELSE WithParsed(actualSecretKey.value, parseEncryptedData(encryptedData))
      WithSecretKey(actualSecretKey) ==
        Validate(actualSecretKey, validateSecretKey(actualSecretKey.value),
                 validateInputs(encryptedData, actualSecretKey.value))
  IN  WithSecretKey(getSecretKeyFromEnvironment(stored))


(***************************************************************************)
(* EnvironmentFileParser                                                   *)
(***************************************************************************)

Letters ==
  { Base64Alphabet[i] : i \in 1..52 }

Digits == { "0", "1", "2", "3", "4", "5", "6", "7", "8", "9" }

\* SECURITY_CONSTANTS.VALIDATION.ENV_VAR_KEY_PATTERN, /^[A-Z_][A-Z0-9_]*$/i
MatchesKeyPattern(key) ==
  /\ key # <<>>
  /\ key[1] \in Letters \cup {"_"}
  /\ \A i \in 2..Len(key) : key[i] \in Letters \cup Digits \cup {"_"}

\* content.split(/\r?\n/): a "\r" right before a "\n" belongs to the separator
SplitLines(content) ==
  LET pieces == Split(content, "\n")
  IN  [k \in 1..Len(pieces) |->
         IF k < Len(pieces) /\ pieces[k] # <<>> /\ pieces[k][Len(pieces[k])] = "\r"
         THEN SubSeq(pieces[k], 1, Len(pieces[k]) - 1)
         ELSE pieces[k]]

\* EnvironmentFileParser.readEnvironmentFileAsLines on the content of the file
readEnvironmentFileAsLines(content) ==
  IF content = <<>> THEN <<>> ELSE SplitLines(content)

\* the content EnvironmentFileParser.writeEnvironmentFileLines writes
writeEnvironmentFileLines(lines) == Join(lines, << "\n" >>)

\* EnvironmentFileParser.parseEnvironmentLine: <<key, value>>, or <<>> for null
parseEnvironmentLine(line) ==
  LET trimmedLine == Trim(line)
      equalIndex == IndexOf(trimmedLine, "=")
      key == Trim(SubSeq(trimmedLine, 1, equalIndex - 1))
      value == SubSeq(trimmedLine, equalIndex + 1, Len(trimmedLine))
  IN  IF trimmedLine = <<>> \/ trimmedLine[1] = "#" \/ equalIndex = 0 THEN <<>>
      ELSE IF key = <<>> \/ ~MatchesKeyPattern(key) THEN <<>>
      ELSE << key, value >>

\* the name of the prototype accessor every object literal inherits
ProtoKey == << "_", "_", "p", "r", "o", "t", "o", "_", "_" >>

\* a Record<string, string> is the sequence of its entries in insertion
\* order; this is the assignment variables[key] = value on an object
\* created by {}: under the key __proto__ it calls the inherited setter,
\* which ignores a string and adds no entry
SetEntry(variables, key, value) ==
  IF key = ProtoKey THEN variables
  ELSE IF \E i \in 1..Len(variables) : variables[i].key = key
  THEN [i \in 1..Len(variables) |->
          IF variables[i].key = key THEN [key |-> key, value |-> value]
          ELSE variables[i]]
  ELSE Append(variables, [key |-> key, value |-> value])

\* the loop of extractEnvironmentVariables from line i on
RECURSIVE ExtractFrom(_, _, _)
ExtractFrom(lines, i, variables) ==
  IF i > Len(lines) THEN variables
  ELSE LET parsedVariable == parseEnvironmentLine(lines[i])
       IN  IF parsedVariable = <<>> THEN ExtractFrom(lines, i + 1, variables)
           ELSE ExtractFrom(lines, i + 1,
                  SetEntry(variables, parsedVariable[1], parsedVariable[2]))

\* EnvironmentFileParser.extractEnvironmentVariables
extractEnvironmentVariables(lines) == ExtractFrom(lines, 1, <<>>)

\* an update that replaces the first matching line only
updateEnvironmentFileLines_FirstOnly(existingLines, envVariable, value) ==
  LET assignment == envVariable \o << "=" >>
      matching == { i \in 1..Len(existingLines) :
                      StartsWith(Trim(existingLines[i]), assignment) }
  IN  IF matching = {} THEN Append(existingLines, assignment \o value)
      ELSE [i \in 1..Len(existingLines) |->
              IF i \in matching /\ \A j \in matching : i <= j
              THEN assignment \o value
              ELSE existingLines[i]]

\* an update that appends the assignment whenever no line was changed by it
updateEnvironmentFileLines_AppendsUnchanged(existingLines, envVariable, value) ==
  LET assignment == envVariable \o << "=" >>
      changed == { i \in 1..Len(existingLines) :
                     /\ StartsWith(Trim(existingLines[i]), assignment)
                     /\ existingLines[i] # assignment \o value }
      updatedLines == [i \in 1..Len(existingLines) |->
                         IF i \in changed THEN assignment \o value
                         ELSE existingLines[i]]
  IN  IF changed # {} THEN updatedLines
      ELSE Append(updatedLines, assignment \o value)

\* EnvironmentFileParser.updateEnvironmentFileLines
updateEnvironmentFileLines(existingLines, envVariable, value) ==
  LET assignment == envVariable \o << "=" >>
      wasUpdated == \E i \in 1..Len(existingLines) :
                      StartsWith(Trim(existingLines[i]), assignment)
      updatedLines == [i \in 1..Len(existingLines) |->
                         IF StartsWith(Trim(existingLines[i]), assignment)
                         THEN assignment \o value
                         ELSE existingLines[i]]
  IN  IF wasUpdated THEN updatedLines
      ELSE Append(updatedLines, assignment \o value)

\* a lookup by key alone
findEnvironmentVariableByKey_KeyOnly(allEnvVariables, lookupValue) ==
  LET byKey == { i \in 1..Len(allEnvVariables) : allEnvVariables[i].key = lookupValue }
  IN  IF byKey # {} THEN << allEnvVariables[CHOOSE i \in byKey : TRUE] >> ELSE <<>>

\* EnvironmentFileParser.findEnvironmentVariableByKey: the entry whose key is
\* lookupValue, else the first entry whose value is lookupValue, else none
findEnvironmentVariableByKey(allEnvVariables, lookupValue) ==
  LET byKey == { i \in 1..Len(allEnvVariables) : allEnvVariables[i].key = lookupValue }
      byValue == { i \in 1..Len(allEnvVariables) : allEnvVariables[i].value = lookupValue }
  IN  IF byKey # {} THEN << allEnvVariables[CHOOSE i \in byKey : TRUE] >>
      ELSE IF byValue # {}
        THEN << allEnvVariables[CHOOSE i \in byValue : \A j \in byValue : i <= j] >>
      ELSE <<>>

(***************************************************************************)
(* EncryptionManager                                                       *)
(***************************************************************************)

\* the loop of resolveVariablesToEncrypt from name i on
RECURSIVE ResolveFrom(_, _, _, _)
ResolveFrom(allEnvVariables, names, i, acc) ==
  IF i > Len(names) THEN acc
  ELSE LET foundVariable == findEnvironmentVariableByKey(allEnvVariables, names[i])
       IN  IF foundVariable = <<>>
           THEN ResolveFrom(allEnvVariables, names, i + 1,
                  [acc EXCEPT !.notFoundVariables = Append(@, names[i])])
           ELSE ResolveFrom(allEnvVariables, names, i + 1,
                  [acc EXCEPT !.variablesToEncrypt =
                     SetEntry(@, foundVariable[1].key, foundVariable[1].value)])

\* a selection that hands the selected variables over in the order of the file
resolveVariablesToEncrypt_FileOrder(allEnvVariables, names) ==
  LET InFileOrder(resolved) ==
        [variablesToEncrypt |->
           SelectSeq(allEnvVariables,
             LAMBDA e : \E i \in 1..Len(resolved.variablesToEncrypt) :
                          resolved.variablesToEncrypt[i].key = e.key),
         notFoundVariables |-> resolved.notFoundVariables]
  IN  IF names = <<>>
      THEN [variablesToEncrypt |-> allEnvVariables, notFoundVariables |-> <<>>]
      ELSE InFileOrder(ResolveFrom(allEnvVariables, names, 1,
             [variablesToEncrypt |-> <<>>, notFoundVariables |-> <<>>]))

\* EncryptionManager.resolveVariablesToEncrypt, with the names it warns about
resolveVariablesToEncrypt(allEnvVariables, names) ==
  IF names = <<>>
  THEN [variablesToEncrypt |-> allEnvVariables, notFoundVariables |-> <<>>]
  ELSE ResolveFrom(allEnvVariables, names, 1,
         [variablesToEncrypt |-> <<>>, notFoundVariables |-> <<>>])

\* a probe that finds no value encrypted
isAlreadyEncrypted_Never(value) == FALSE

\* a probe that applies the structural check of CryptoManager.isEncrypted
isAlreadyEncrypted_Structural(value) == isEncrypted(value)

\* EncryptionManager.isAlreadyEncrypted
isAlreadyEncrypted(value) ==
  IF value = <<>> THEN FALSE ELSE StartsWith(value, PREFIX)


(***************************************************************************)
(* Inputs of the model                                                     *)
(***************************************************************************)

\* plaintexts have 0 .. MaxPlainLen characters
MaxPlainLen == 3
\* the random generator has NumSalts outcomes for a salt and NumIvs for an IV
NumSalts == 2
NumIvs == 1
\* a tampered character is replaced by '=' (delta 0) or by the character
\* delta places further in the base64 alphabet (cyclically), delta being
\* 1 .. MaxTamperDelta
MaxTamperDelta == 1

PlainSource == << "h", "u", "n", "t", "e", "r", "2", "!", "x" >>
PlainTexts == { SubSeq(PlainSource, 1, n) : n \in 0..MaxPlainLen }

SecretA == << "c", "o", "r", "r", "e", "c", "t", "-", "h", "o", "r", "s", "e", "-", "0", "1" >>
SecretB == << "c", "o", "r", "r", "e", "c", "t", "-", "h", "o", "r", "s", "e", "-", "0", "2" >>
ShortSecret == << "t", "o", "o", "-", "s", "h", "o", "r", "t" >>
ValidSecrets == { SecretA, SecretB }
\* what the base environment file may hold under the secret key variable
StoredSecrets == ValidSecrets \cup { ShortSecret, <<>> }

SaltSeeds == 0..(NumSalts - 1)
IvSeeds == NumSalts..(NumSalts + NumIvs - 1)

\* keys, values and lines of the environment files of the model
KeyA == << "A" >>
KeyB == << "B" >>
KeyC == << "C" >>
KeyNone == << "N", "O", "P", "E" >>
ValuePw == << "p", "w" >>
ValueS3 == << "s", "3" >>
CommentLine == << "#", " ", "c" >>

Assign(key, value) == key \o << "=" >> \o value

\* a record an earlier encrypt call returned for value under secret
Earlier(value, secret, seed) == encrypt(value, secret, NumSalts + NumIvs + seed, seed).value

FilePlain ==
  Join(<< CommentLine, Assign(KeyA, ValuePw), <<>>, Assign(KeyB, ValueS3) >>, << "\n" >>)
FileMixed ==
  Join(<< Assign(KeyA, ValuePw), Assign(KeyB, <<>>),
          Assign(KeyC, Earlier(ValueS3, SecretA, 0)) >>, << "\n" >>)
FileEncrypted ==
  Join(<< Assign(KeyA, Earlier(ValuePw, SecretA, 0)), CommentLine,
          Assign(KeyB, Earlier(ValueS3, SecretA, 1)) >>, << "\n" >>)
FilePrefixOnly ==
  Join(<< Assign(KeyA, ValuePw), Assign(KeyB, PREFIX \o << "x" >>) >>, << "\n" >>)
FileOtherKey ==
  Join(<< Assign(KeyA, ValuePw), Assign(KeyB, Earlier(ValueS3, SecretB, 0)) >>, << "\n" >>)
FileOdd ==
  Join(<< << "j", "u", "n", "k" >>, << "1", "X", "=", "n", "o" >>,
          << " " >> \o Assign(KeyA, ValuePw) \o << " " >>, Assign(KeyA, ValueS3) >>,
       << "\r", "\n" >>)
\* a file whose assignment of A has a space between the key and the '='
FileSpacedKey ==
  Join(<< CommentLine, KeyA \o << " " >> \o << "=" >> \o ValuePw >>, << "\n" >>)
\* a file with two assignments of A, the later one with a space between the
\* key and the '='
FileTwoShapes ==
  Join(<< Assign(KeyA, ValuePw), KeyA \o << " " >> \o << "=" >> \o ValueS3 >>, << "\n" >>)
FileNoVariables == Join(<< CommentLine, <<>> >>, << "\n" >>)
FileEmpty == <<>>

Files ==
  { FilePlain, FileMixed, FileEncrypted, FilePrefixOnly, FileOtherKey, FileOdd,
    FileSpacedKey, FileTwoShapes, FileNoVariables, FileEmpty }

\* the envVariables argument: absent (empty), or a list of names
NameLists ==
  { <<>>, << KeyA >>, << KeyB, KeyA >>, << KeyA, KeyNone >>, << KeyNone >>,
    << ValuePw >> }


\* the character that replaces the character c of a record
Replacement(c, delta) ==
  IF delta = 0 THEN "="
  ELSE Base64Char(((IF c \in Base64Chars THEN Base64Value(c) ELSE 63) + delta) % 64)

\* the four segments of a structurally valid record, and where each starts
Segments(data) == Split(SubSeq(data, Len(PREFIX) + 1, Len(data)), SEPARATOR)

SegmentStart(data, k) ==
  LET parts == Segments(data)
  IN  Len(PREFIX) + SumRange([i \in 1..Len(parts) |-> Len(parts[i]) + 1], 1, k - 1)

(***************************************************************************)
(* State                                                                   *)
(***************************************************************************)

VARIABLES
  stored,        \* the secret stored under the secret key variable
  op,            \* the last operation of the crypto service scenario
  plain,         \* the value given to the last encrypt call
  encrypted,     \* the promise of the last encrypt call
  encryptedWith, \* the secret that was stored when encrypt was called
  data,          \* the record held by the caller (possibly tampered with)
  tampered,      \* the segment of data that was tampered with, or "none"
  decrypted,     \* the outcome of the last decrypt call
  decryptedWith  \* the secret that was stored when decrypt was called

cryptoVars ==
  << op, plain, encrypted, encryptedWith, data, tampered, decrypted, decryptedWith >>

VARIABLES
  content,            \* the content of the environment file
  pc,                 \* where encryptAndUpdateEnvironmentVariables is
  envVariables,       \* its envVariables argument
  forceReEncryption,  \* its forceReEncryption argument
  envFileLines,       \* the lines it read
  variablesToEncrypt, \* the variables it selected
  notFoundVariables,  \* the names it warned about as not found
  idx,                \* the position of the loop in variablesToEncrypt
  updatedLines,       \* the lines, updated in memory
  encryptedCount,     \* the loop's counter of newly encrypted variables
  reEncryptedCount,   \* the loop's counter of re-encrypted variables
  processed,          \* what the loop logged for each variable it finished
  thrown,             \* the error the run threw
  writes,             \* the number of writes of the file by the run
  contentBefore,      \* the content of the file when the run read it
  previousRun         \* the run that went through just before this one

runVars ==
  << content, pc, envVariables, forceReEncryption, envFileLines, variablesToEncrypt,
     notFoundVariables, idx, updatedLines, encryptedCount, reEncryptedCount,
     processed, thrown, writes, contentBefore, previousRun >>

VARIABLES
  fnArg,  \* the function that is applied on its own, and its arguments
  fnRes   \* what the function returned

fnVars == << fnArg, fnRes >>

VARIABLES
  runs,     \* the local state of each of the concurrent runs
  writeLog  \* the concurrent runs that wrote the file, in the order of their writes

concVars == << runs, writeLog >>

VARIABLES
  manager,  \* the state of the EnvironmentConfigManager
  mcall     \* its call of initialize or reload: where it is, how it ended

managerVars == << manager, mcall >>

VARIABLES
  hasBeenReset,  \* AuthStorageManager.hasBeenReset
  authCalls,     \* the calls of initializeEmptyAuthStateFile
  authFile       \* the auth-state file: its successful resets, by call

authVars == << hasBeenReset, authCalls, authFile >>

VARIABLES
  cache,      \* SensitiveKeyCache.cache, in insertion order
  cacheCall   \* the last call of isSensitive and what it returned

cacheVars == << cache, cacheCall >>

\* the state of the utilities beside the encryption subsystem
utilityVars == << managerVars, authVars, cacheVars >>

\* what the calls of the crypto service, what a run, what a function applied
\* on its own, and what the concurrent runs leave alone
outsideCrypto == << runVars, fnVars, concVars, utilityVars >>
outsideRun == << cryptoVars, fnVars, concVars, utilityVars >>
outsideFn == << stored, cryptoVars, runVars, concVars, utilityVars >>
outsideManager == << stored, cryptoVars, runVars, fnVars, concVars, authVars, cacheVars >>
outsideAuth == << stored, cryptoVars, runVars, fnVars, concVars, managerVars, cacheVars >>
outsideCache == << stored, cryptoVars, runVars, fnVars, concVars, managerVars, authVars >>
outsideConc ==
  << cryptoVars, fnVars, utilityVars, pc, envVariables, forceReEncryption, envFileLines,
     variablesToEncrypt, notFoundVariables, idx, updatedLines, encryptedCount,
     reEncryptedCount, processed, thrown, writes, contentBefore, previousRun >>

vars == << stored, cryptoVars, runVars, fnVars, concVars, utilityVars >>

\* no function has been applied on its own
NoCall == [fn |-> "none"]
FnIdle == fnArg = NoCall /\ fnRes = NoCall

\* the concurrent runs
RunIds == {1, 2}

\* a concurrent run that has not been started
NotStarted ==
  [pc |-> "idle", envVariables |-> <<>>, read |-> <<>>, variablesToEncrypt |-> <<>>,
   idx |-> 0, updatedLines |-> <<>>, changed |-> {}]

ConcIdle == runs = [r \in RunIds |-> NotStarted] /\ writeLog = <<>>

\* resetState, and the state of a new EnvironmentConfigManager
resetState == [initialized |-> FALSE, loadedFiles |-> <<>>, activeEnvironment |-> "null"]

\* no call of the manager has been made
NoManagerCall ==
  [op |-> "none", pc |-> "idle", previousState |-> resetState, outcome |-> "none"]

ManagerIdle == manager = resetState /\ mcall = NoManagerCall

\* the calls of initializeEmptyAuthStateFile
\* how many calls of initializeEmptyAuthStateFile a process makes
MaxAuthCalls == 3
AuthCallIds == 1..MaxAuthCalls

\* no call of initializeEmptyAuthStateFile has been made
AuthIdle ==
  /\ hasBeenReset = FALSE
  /\ authCalls = [c \in AuthCallIds |-> [pc |-> "idle", result |-> "none", resetSeen |-> FALSE]]
  /\ authFile = <<>>

\* no call of isSensitive has been made
NoCacheCall == [key |-> <<>>, sensitiveKeys |-> <<>>, result |-> FALSE, called |-> FALSE]

CacheIdle == cache = <<>> /\ cacheCall = NoCacheCall

UtilitiesIdle == ManagerIdle /\ AuthIdle /\ CacheIdle

NoOutcome == [ok |-> FALSE, value |-> <<>>, error |-> "notCalled", hmac |-> "notRun"]

CryptoIdle ==
  /\ op = "none"
  /\ plain = <<>>
  /\ encrypted = Err("notCalled")
  /\ encryptedWith = <<>>
  /\ data = <<>>
  /\ tampered = "none"
  /\ decrypted = NoOutcome
  /\ decryptedWith = <<>>

(***************************************************************************)
(* The crypto service scenario: encrypt, tamper, decrypt                   *)
(***************************************************************************)

\* the secret key variable of the base environment file is edited, before
\* encrypt is called or between encrypt and decrypt
SetSecret(s) ==
  /\ op \in {"none", "encrypt"}
  /\ s # stored
  /\ stored' = s
  /\ UNCHANGED << cryptoVars, outsideCrypto >>

\* a call of CryptoService.encrypt(value, secretKeyVariable)
EncryptCall(value, saltSeed, ivSeed) ==
  LET r == encrypt(value, stored, saltSeed, ivSeed)
  IN  /\ op = "none"
      /\ op' = "encrypt"
      /\ plain' = value
      /\ encrypted' = r
      /\ encryptedWith' = stored
      /\ data' = r.value
      /\ tampered' = "none"
      /\ decrypted' = NoOutcome
      /\ decryptedWith' = <<>>
      /\ UNCHANGED << stored, outsideCrypto >>

\* one character of segment k of the record returned by encrypt is
\* replaced, the stored secret being the one encrypt used
Tamper(k, name) ==
  /\ op = "encrypt"
  /\ encrypted.ok
  /\ stored = encryptedWith
  /\ LET start == SegmentStart(data, k)
         len == Len(Segments(data)[k])
     IN  \E pos \in 1..len, delta \in 0..MaxTamperDelta :
           /\ Replacement(data[start + pos], delta) # data[start + pos]
           /\ data' = [data EXCEPT ![start + pos] = Replacement(data[start + pos], delta)]
  /\ tampered' = name
  /\ op' = "tamper"
  /\ UNCHANGED << stored, plain, encrypted, encryptedWith, decrypted, decryptedWith >>
  /\ UNCHANGED outsideCrypto

\* the mac segment is tampered with, the record staying well formed
TamperMac ==
  /\ Tamper(4, "mac")
  /\ isEncrypted(data')

\* the cipherText segment is tampered with
TamperCipherText == Tamper(3, "cipherText")

\* a call of CryptoService.decrypt(data, secretKeyVariable)
DecryptCall ==
  /\ op \in {"encrypt", "tamper"}
  /\ decrypted' = decrypt(data, stored)
  /\ decryptedWith' = stored
  /\ op' = "decrypt"
  /\ UNCHANGED << stored, plain, encrypted, encryptedWith, data, tampered >>
  /\ UNCHANGED outsideCrypto

\* no run went through before this one
NoPreviousRun == [ran |-> FALSE, contentBefore |-> <<>>, encrypted |-> 0]

\* no run of encryptAndUpdateEnvironmentVariables has started
RunIdle ==
  /\ pc = "idle"
  /\ envVariables = <<>>
  /\ forceReEncryption = FALSE
  /\ envFileLines = <<>>
  /\ variablesToEncrypt = <<>>
  /\ notFoundVariables = <<>>
  /\ idx = 0
  /\ updatedLines = <<>>
  /\ encryptedCount = 0
  /\ reEncryptedCount = 0
  /\ processed = <<>>
  /\ thrown = [error |-> "none", key |-> <<>>]
  /\ writes = 0
  /\ contentBefore = <<>>
  /\ previousRun = NoPreviousRun

CryptoInit ==
  /\ stored \in StoredSecrets
  /\ CryptoIdle
  /\ content = <<>>
  /\ RunIdle
  /\ FnIdle
  /\ ConcIdle
  /\ UtilitiesIdle

CryptoNext ==
  \/ \E s \in StoredSecrets : SetSecret(s)
  \/ \E v \in PlainTexts, saltSeed \in SaltSeeds, ivSeed \in IvSeeds :
       EncryptCall(v, saltSeed, ivSeed)
  \/ TamperMac
  \/ TamperCipherText
  \/ DecryptCall

CryptoSpec == CryptoInit /\ [][CryptoNext]_vars


(***************************************************************************)
(* The run of EncryptionManager.encryptAndUpdateEnvironmentVariables       *)
(***************************************************************************)

NoError == [error |-> "none", key |-> <<>>]

\* a rotation that re-encrypts the stored record as it is, without decrypting
decryptForReEncryption_Skipped(trimmedValue, secret) ==
  DecryptOutcome(Ok(trimmedValue), "notRun")

\* the decrypt call of the re-encryption branch
decryptForReEncryption(trimmedValue, secret) == decrypt(trimmedValue, secret)

\* one iteration of the loop of encryptVariableValuesInFileLines, for the
\* entry (key, value): what it logs as outcome, the lines after it and the
\* error it throws (key being the variable the error message names)
processVariable(lines, key, value, secret, force, saltSeed, ivSeed) ==
  LET Update(isCurrentlyEncrypted, encryptedValue) ==
        IF ~encryptedValue.ok
        THEN [outcome |-> "failed", updatedLines |-> lines,
              thrown |-> [error |-> encryptedValue.error, key |-> <<>>]]
        ELSE [outcome |-> IF isCurrentlyEncrypted THEN "reEncrypted" ELSE "encrypted",
              updatedLines |->
                updateEnvironmentFileLines(lines, key, encryptedValue.value),
              thrown |-> NoError]
      ReEncrypt(decryption) ==
        IF ~decryption.ok
        THEN [outcome |-> "failed", updatedLines |-> lines,
              thrown |-> [error |-> "CannotReEncrypt", key |-> key]]
        ELSE Update(TRUE, encrypt(decryption.value, secret, saltSeed, ivSeed))
      Process(trimmedValue, isCurrentlyEncrypted) ==
        IF isCurrentlyEncrypted /\ ~force
        THEN [outcome |-> "skippedEncrypted", updatedLines |-> lines, thrown |-> NoError]
        ELSE IF isCurrentlyEncrypted
        THEN ReEncrypt(decryptForReEncryption(trimmedValue, secret))
        ELSE Update(FALSE, encrypt(trimmedValue, secret, saltSeed, ivSeed))
      Trimmed(trimmedValue) == Process(trimmedValue, isAlreadyEncrypted(trimmedValue))
  IN  IF value = <<>>
      THEN [outcome |-> "skippedEmpty", updatedLines |-> lines, thrown |-> NoError]
      ELSE Trimmed(Trim(value))

\* encryptAndUpdateEnvironmentVariables up to the loop: the file is read,
\* the variables are extracted and selected; every local of the call starts
\* from its initial value
BeginRun(names, force) ==
  LET Start(lines, allEnvVariables, resolved) ==
        /\ envVariables' = names
        /\ forceReEncryption' = force
        /\ contentBefore' = content
        /\ envFileLines' = lines
        /\ IF allEnvVariables = <<>>
           THEN /\ pc' = "done"
                /\ variablesToEncrypt' = <<>>
                /\ notFoundVariables' = <<>>
                /\ updatedLines' = <<>>
                /\ idx' = 0
           ELSE /\ variablesToEncrypt' = resolved.variablesToEncrypt
                /\ notFoundVariables' = resolved.notFoundVariables
                /\ IF resolved.variablesToEncrypt = <<>>
                   THEN /\ pc' = "done"
                        /\ updatedLines' = <<>>
                        /\ idx' = 0
                   ELSE /\ pc' = "loop"
                        /\ updatedLines' = lines
                        /\ idx' = 1
      Resolve(lines, allEnvVariables) ==
        Start(lines, allEnvVariables, resolveVariablesToEncrypt(allEnvVariables, names))
      Extract(lines) == Resolve(lines, extractEnvironmentVariables(lines))
  IN  /\ Extract(readEnvironmentFileAsLines(content))
      /\ encryptedCount' = 0
      /\ reEncryptedCount' = 0
      /\ processed' = <<>>
      /\ thrown' = NoError
      /\ writes' = 0
      /\ UNCHANGED << stored, outsideRun, content >>

\* a call of encryptAndUpdateEnvironmentVariables
StartRun(names, force) ==
  /\ pc = "idle"
  /\ BeginRun(names, force)
  /\ UNCHANGED previousRun

\* a call without rotation has returned and is at once followed by a call
\* with the same arguments
RunAgain ==
  /\ pc = "done"
  /\ ~previousRun.ran
  /\ ~forceReEncryption
  /\ BeginRun(envVariables, forceReEncryption)
  /\ previousRun' = [ran |-> TRUE, contentBefore |-> contentBefore,
                     encrypted |-> encryptedCount + reEncryptedCount]

\* one iteration of the loop over the selected variables
ProcessVariable(saltSeed, ivSeed) ==
  /\ pc = "loop"
  /\ idx <= Len(variablesToEncrypt)
  /\ LET Step(entry, r) ==
           /\ updatedLines' = r.updatedLines
           /\ thrown' = r.thrown
           /\ pc' = IF r.outcome = "failed" THEN "failed" ELSE "loop"
           /\ idx' = IF r.outcome = "failed" THEN idx ELSE idx + 1
           /\ encryptedCount' =
                encryptedCount + (IF r.outcome = "encrypted" THEN 1 ELSE 0)
           /\ reEncryptedCount' =
                reEncryptedCount + (IF r.outcome = "reEncrypted" THEN 1 ELSE 0)
           /\ processed' = Append(processed, [key |-> entry.key, outcome |-> r.outcome])
         Entry(entry) ==
           Step(entry, processVariable(updatedLines, entry.key, entry.value, stored,
                                       forceReEncryption, saltSeed, ivSeed))
     IN  Entry(variablesToEncrypt[idx])
  /\ UNCHANGED << stored, outsideRun, content, envVariables, forceReEncryption,
                  envFileLines, variablesToEncrypt, notFoundVariables, writes,
                  contentBefore, previousRun >>

\* a count that leaves the re-encrypted variables out
returnedCount_NewOnly(newly, reEncrypted) == newly

\* what encryptVariableValuesInFileLines returns as encryptedCount
returnedCount(newly, reEncrypted) == newly + reEncrypted

\* a run that goes on to the write after its loop threw as well
loopCompleted_OrThrew == pc = "failed" \/ (pc = "loop" /\ idx > Len(variablesToEncrypt))

\* encryptVariableValuesInFileLines has returned: the loop went over every
\* selected variable and none of them threw
loopCompleted == pc = "loop" /\ idx > Len(variablesToEncrypt)

\* after the loop: the file is written if encryptedCount > 0, and the
\* summary is logged
Persist ==
  /\ loopCompleted
  /\ IF returnedCount(encryptedCount, reEncryptedCount) > 0
     THEN /\ content' = writeEnvironmentFileLines(updatedLines)
          /\ writes' = writes + 1
     ELSE UNCHANGED << content, writes >>
  /\ pc' = "done"
  /\ UNCHANGED << stored, outsideRun, envVariables, forceReEncryption, envFileLines,
                  variablesToEncrypt, notFoundVariables, idx, updatedLines,
                  encryptedCount, reEncryptedCount, processed, thrown, contentBefore,
                  previousRun >>

RunInit ==
  /\ stored \in StoredSecrets
  /\ CryptoIdle
  /\ content \in Files
  /\ RunIdle
  /\ FnIdle
  /\ ConcIdle
  /\ UtilitiesIdle

RunNext ==
  \/ \E names \in NameLists, force \in BOOLEAN : StartRun(names, force)
  \/ \E saltSeed \in SaltSeeds, ivSeed \in IvSeeds : ProcessVariable(saltSeed, ivSeed)
  \/ Persist
  \/ RunAgain

RunSpec == RunInit /\ [][RunNext]_vars


(***************************************************************************)
(* Claims about the crypto service, checked under CryptoSpec               *)
(***************************************************************************)

\* decrypt was called on the untampered result of encrypt, the stored
\* secret being a valid one and the same at both calls
RoundTripCase ==
  /\ op = "decrypt"
  /\ tampered = "none"
  /\ encryptedWith \in ValidSecrets
  /\ decryptedWith = encryptedWith

C2_MacTamperRejected ==
  (op = "decrypt" /\ tampered = "mac" /\ decryptedWith = encryptedWith) =>
    (~decrypted.ok /\ decrypted.error = "HMACMismatch")

\* the bytes of the cipherText segment of a record
CipherBytes(record) == Base64Decode(Segments(record)[3])

CipherTamperCase ==
  /\ op = "decrypt"
  /\ tampered = "cipherText"
  /\ decryptedWith = encryptedWith

\* C3, as stated: decrypt of a record whose cipherText segment had one
\* character replaced fails.
C3_CipherTamperRejected == CipherTamperCase => ~decrypted.ok

\* C3, amended: decrypt of a record whose cipherText segment had one character
\* replaced fails whenever the replacement changes the bytes the segment
\* decodes to or makes the segment invalid base64, and when it succeeds (the
\* replacement changed only the unused low bits of the last character) it
\* returns the original plaintext, never a corrupted one.
C3_CipherTamperNeverCorrupts ==
  CipherTamperCase =>
    /\ decrypted.ok => decrypted.value = plain
    /\ decrypted.ok <=>
         (isEncrypted(data) /\ CipherBytes(data) = CipherBytes(encrypted.value))

C3_Witness ==
  /\ CipherTamperCase
  /\ isEncrypted(data)
  /\ CipherBytes(data) # CipherBytes(encrypted.value)
  /\ decrypted.error = "OperationError"

\* C4: decrypt of a record under a stored secret other than the one it was
\* encrypted with never succeeds; under another valid secret it fails with
\* an authentication or decryption error.
C4_WrongKeyRejected ==
  (op = "decrypt" /\ encrypted.ok /\ decryptedWith # encryptedWith) =>
    /\ ~decrypted.ok
    /\ decryptedWith \in ValidSecrets =>
         decrypted.error \in {"HMACMismatch", "OperationError"}

C4_Witness ==
  /\ op = "decrypt"
  /\ encrypted.ok
  /\ tampered = "none"
  /\ encryptedWith = SecretA
  /\ decryptedWith = SecretB
  /\ ~decrypted.ok

(***************************************************************************)
(* Claims about the run, checked under RunSpec                             *)
(***************************************************************************)

\* the variables of a file content, as the parser extracts them
VariablesOf(fileContent) ==
  extractEnvironmentVariables(readEnvironmentFileAsLines(fileContent))

\* the value a file content gives to key (empty when it has no such key)
ValueIn(fileContent, key) ==
  LET Lookup(all) ==
        IF \E i \in 1..Len(all) : all[i].key = key
        THEN all[CHOOSE i \in 1..Len(all) : all[i].key = key].value
        ELSE <<>>
  IN  Lookup(VariablesOf(fileContent))

RunEnded == pc \in {"done", "failed"}

\* the outcomes of the loop that changed a line
Changed == { i \in 1..Len(processed) : processed[i].outcome \in {"encrypted", "reEncrypted"} }

\* C5: once the encrypt or decrypt step of a selected variable has failed,
\* the run is aborted with an error, no write has happened and the file has
\* the content it had before the run; a run that completes had no failing step.
C5_NoPartialPersistence ==
  (\E i \in 1..Len(processed) : processed[i].outcome = "failed") =>
    /\ pc = "failed"
    /\ thrown.error # "none"
    /\ writes = 0
    /\ content = contentBefore

C5_Witness ==
  /\ pc = "failed"
  /\ Changed # {}
  /\ updatedLines # envFileLines
  /\ content = contentBefore

\* the files whose values were all encrypted under one secret, with the
\* plaintexts they were encrypted from
EncryptedFiles ==
  { [content |-> FileEncrypted, secret |-> SecretA,
     plain |-> << [key |-> KeyA, value |-> ValuePw], [key |-> KeyB, value |-> ValueS3] >>] }

PlainOf(f, key) == f.plain[CHOOSE i \in 1..Len(f.plain) : f.plain[i].key = key].value

\* a run with rotation over the file f has ended
RotationCase(f) ==
  /\ RunEnded
  /\ contentBefore = f.content
  /\ forceReEncryption
  /\ variablesToEncrypt # <<>>

\* every selected value of the file decrypts under secret to the plaintext
\* it had in f
RecoversUnder(f, secret) ==
  \A i \in 1..Len(variablesToEncrypt) :
    LET Recovered(d) == d.ok /\ d.value = PlainOf(f, variablesToEncrypt[i].key)
    IN  Recovered(decrypt(ValueIn(content, variablesToEncrypt[i].key), secret))

AllEncrypted(fileContent) ==
  LET Check(all) == all # <<>> /\ \A i \in 1..Len(all) : isEncrypted(all[i].value)
  IN  Check(VariablesOf(fileContent))

\* C7: a run without rotation over a file in which every variable value is
\* already encrypted completes without a write and leaves the content of the
\* file unchanged.
C7_Idempotence ==
  (RunEnded /\ ~forceReEncryption /\ AllEncrypted(contentBefore)) =>
    /\ pc = "done"
    /\ writes = 0
    /\ content = contentBefore

C7_Witness ==
  /\ pc = "done"
  /\ ~forceReEncryption
  /\ AllEncrypted(contentBefore)
  /\ Len(processed) = 2
  /\ \A i \in 1..Len(processed) : processed[i].outcome = "skippedEncrypted"
  /\ content = contentBefore

\* the loop treated the i-th selected variable as already encrypted: it
\* skipped it as such, re-encrypted it, or failed decrypting it for rotation
TreatedAsEncrypted(i) ==
  \/ processed[i].outcome \in {"skippedEncrypted", "reEncrypted"}
  \/ processed[i].outcome = "failed" /\ thrown.error = "CannotReEncrypt"

\* the i-th selected variable went through the encrypt step as a plaintext
TreatedAsPlaintext(i) ==
  \/ processed[i].outcome = "encrypted"
  \/ processed[i].outcome = "failed" /\ thrown.error # "CannotReEncrypt"

SelectionCase == pc # "idle" /\ VariablesOf(contentBefore) # <<>>

\* the keys of the selected variables, and the names warned about
SelectedKeys == { variablesToEncrypt[i].key : i \in 1..Len(variablesToEncrypt) }
WarnedNames == { notFoundVariables[i] : i \in 1..Len(notFoundVariables) }
RequestedNames == { envVariables[i] : i \in 1..Len(envVariables) }

\* every selected variable has the value the file gives to its key
SelectedValuesFromFile ==
  \A i \in 1..Len(variablesToEncrypt) :
    variablesToEncrypt[i].value = ValueIn(contentBefore, variablesToEncrypt[i].key)

\* C9, as stated: with a list of names, the selected variables are those
\* whose key is one of the names, and the names that are no key are the ones
\* warned about; with no list, all extracted variables are selected.
C9_SelectedByExactKey ==
  SelectionCase =>
    LET Selects(all) ==
          LET keys == { all[i].key : i \in 1..Len(all) }
          IN  IF envVariables = <<>> THEN variablesToEncrypt = all
              ELSE /\ SelectedKeys = keys \cap RequestedNames
                   /\ WarnedNames = RequestedNames \ keys
                   /\ SelectedValuesFromFile
    IN  Selects(VariablesOf(contentBefore))

\* C9, amended: with a list of names, a name selects the variable whose key
\* it is, or else the first variable of the file whose value it is; a name
\* that is neither a key nor a value selects nothing and is warned about,
\* and the run goes on with the other names; with no list, all extracted
\* variables are selected.
C9_SelectedByKeyOrValue ==
  SelectionCase =>
    LET Selects(all) ==
          LET keys == { all[i].key : i \in 1..Len(all) }
              values == { all[i].value : i \in 1..Len(all) }
              FirstWith(value) ==
                all[CHOOSE i \in 1..Len(all) :
                      /\ all[i].value = value
                      /\ \A j \in 1..(i - 1) : all[j].value # value].key
          IN  IF envVariables = <<>> THEN variablesToEncrypt = all
              ELSE /\ SelectedKeys =
                        (keys \cap RequestedNames)
                        \cup { FirstWith(name) : name \in (RequestedNames \cap values) \ keys }
                   /\ WarnedNames = RequestedNames \ (keys \cup values)
                   /\ SelectedValuesFromFile
    IN  Selects(VariablesOf(contentBefore))

C9_Witness ==
  /\ SelectionCase
  /\ envVariables = << ValuePw >>
  /\ SelectedKeys = { KeyA }
  /\ WarnedNames = {}

\* C10: a run writes the file at most once; it has written it exactly when
\* it is done and at least one selected variable was newly encrypted or
\* re-encrypted, the write coming after the last selected variable was
\* processed; a run that is done without such a variable left the file as
\* it was.
C10_PersistExactlyWhenChanged ==
  /\ writes \in {0, 1}
  /\ writes = 1 <=> (pc = "done" /\ Changed # {})
  /\ writes = 1 => Len(processed) = Len(variablesToEncrypt)
  /\ writes = 1 => content = writeEnvironmentFileLines(updatedLines)
  /\ (writes = 0 /\ pc # "idle") => content = contentBefore

C10_Witness ==
  /\ pc = "done"
  /\ writes = 1
  /\ \E i \in 1..Len(processed) : processed[i].outcome = "reEncrypted"
  /\ \A i \in 1..Len(processed) : processed[i].outcome # "encrypted"
  /\ content # contentBefore

\* C11: when the encrypt or decrypt step of a selected variable has failed,
\* the error the caller receives names that variable.
C11_ErrorNamesVariable ==
  pc = "failed" => thrown.key = variablesToEncrypt[idx].key

\* the keys of the variables the run encrypted or re-encrypted
ChangedKeys == { processed[i].key : i \in Changed }

\* the key a line assigns, when the parser takes it as an assignment of one
\* of keys
AssignsOneOf(line, keys) ==
  LET Key(parsedVariable) == parsedVariable # <<>> /\ parsedVariable[1] \in keys
  IN  Key(parseEnvironmentLine(line))

\* C13: after a successful run that wrote the file, the file has the lines
\* the run read, in their order, every line that is not the assignment of a
\* variable encrypted in this run being unchanged and every line that is one
\* still being the assignment of that variable.
C13_LinesPreserved ==
  (pc = "done" /\ writes = 1) =>
    LET Preserved(before, after) ==
          /\ Len(after) = Len(before)
          /\ \A i \in 1..Len(before) :
               IF AssignsOneOf(before[i], ChangedKeys)
               THEN AssignsOneOf(after[i], {parseEnvironmentLine(before[i])[1]})
               ELSE after[i] = before[i]
    IN  Preserved(envFileLines, readEnvironmentFileAsLines(content))

\* the loop has processed the selected variables one at a time and in their
\* order: the i-th variable it finished is the i-th selected one, and only
\* the last one it worked on can have failed
OneAtATime ==
  /\ Len(processed) <= Len(variablesToEncrypt)
  /\ \A i \in 1..Len(processed) :
       /\ processed[i].key = variablesToEncrypt[i].key
       /\ processed[i].outcome = "failed" => (i = Len(processed) /\ pc = "failed")
  /\ pc = "loop" => idx = Len(processed) + 1

\* the position of key in the variables of the file
PositionInFile(key) ==
  LET At(all) == CHOOSE i \in 1..Len(all) : all[i].key = key
  IN  At(VariablesOf(contentBefore))

\* the position of the first requested name that selects key
PositionInNames(key) ==
  LET Selecting(all) ==
        { n \in 1..Len(envVariables) :
            findEnvironmentVariableByKey(all, envVariables[n]) =
              << [key |-> key, value |-> ValueIn(contentBefore, key)] >> }
      First(ns) == CHOOSE n \in ns : \A m \in ns : n <= m
  IN  First(Selecting(VariablesOf(contentBefore)))

\* C14, as stated: the selected variables are processed one at a time and in
\* the order of their keys in the variables extracted from the file, with and
\* without a list of names.
C14_ProcessedInFileOrder ==
  /\ OneAtATime
  /\ \A i, j \in 1..Len(processed) :
       i < j => PositionInFile(processed[i].key) < PositionInFile(processed[j].key)

\* C14, amended: the selected variables are processed one at a time; without
\* a list of names in the order of their keys in the variables extracted from
\* the file, and with a list of names in the order in which the names of the
\* list first select them.
C14_ProcessedInSelectionOrder ==
  /\ OneAtATime
  /\ \A i, j \in 1..Len(processed) :
       i < j =>
         IF envVariables = <<>>
         THEN PositionInFile(processed[i].key) < PositionInFile(processed[j].key)
         ELSE PositionInNames(processed[i].key) < PositionInNames(processed[j].key)

C14_Witness ==
  /\ pc = "done"
  /\ envVariables = << KeyB, KeyA >>
  /\ Len(processed) = 2
  /\ processed[1].key = KeyB
  /\ processed[2].key = KeyA
  /\ PositionInFile(KeyA) < PositionInFile(KeyB)

\* C23: verify before decrypt.  decrypt returns a plaintext only when the
\* HMAC verification over salt, iv and cipherText has succeeded, and a MAC
\* mismatch makes it reject with the authentication error, the decryption
\* step not being reached.
C23_VerifiedBeforeDecrypt ==
  op = "decrypt" =>
    /\ decrypted.ok => decrypted.hmac = "verified"
    /\ decrypted.hmac = "mismatch" =>
         (~decrypted.ok /\ decrypted.error = "HMACMismatch")

\* the line is an assignment of the value to the key, as the parser reads it
AssignsValue(line, key, value) ==
  LET Same(parsedVariable) ==
        /\ parsedVariable # <<>>
        /\ parsedVariable[1] = key
        /\ Trim(parsedVariable[2]) = Trim(value)
  IN  Same(parseEnvironmentLine(line))

\* C24: no plaintext is left behind.  After a run without rotation that went
\* through, no line of the file assigns to a variable the run encrypted the
\* plaintext value the run read for it, whatever the shape of the line.
C24_NoPlaintextLeft ==
  (pc = "done" /\ ~forceReEncryption) =>
    LET Clean(after) ==
          \A i \in 1..Len(processed) :
            processed[i].outcome = "encrypted" =>
              \A j \in 1..Len(after) :
                ~AssignsValue(after[j], processed[i].key, variablesToEncrypt[i].value)
    IN  Clean(readEnvironmentFileAsLines(content))

\* C26: the output of a run is a fixed point.  A run without rotation that
\* at once follows a run with the same arguments that went through encrypts
\* no variable, does not fail and performs no write.
C26_FixedPoint ==
  (previousRun.ran /\ ~forceReEncryption) =>
    /\ pc # "failed"
    /\ encryptedCount = 0
    /\ reEncryptedCount = 0
    /\ writes = 0
    /\ content = contentBefore

\* a summary whose skipped figure is the number of selected variables
logEncryptionSummary_SkippedIsTotal(totalVariables, encrypted_count) ==
  [processed |-> encrypted_count, skipped |-> totalVariables]

\* logEncryptionSummary: the two figures of the summary line, the variables
\* processed and the variables skipped
logEncryptionSummary(totalVariables, encrypted_count) ==
  [processed |-> encrypted_count, skipped |-> totalVariables - encrypted_count]

\* the summary of the run, from the arguments the run passes
RunSummary ==
  logEncryptionSummary(Len(variablesToEncrypt),
                       returnedCount(encryptedCount, reEncryptedCount))

\* the run went through its loop and logged its summary
SummaryLogged ==
  pc = "done" /\ variablesToEncrypt # <<>> /\ Len(processed) = Len(variablesToEncrypt)

\* the number of selected variables the loop logged with the outcome
CountOutcome(outcome) ==
  Cardinality({ i \in 1..Len(processed) : processed[i].outcome = outcome })

\* the positions of the requested names that are neither the key nor the
\* value of a variable of the file
UnresolvedNames ==
  LET Unresolved(all) ==
        { n \in 1..Len(envVariables) :
            \A i \in 1..Len(all) :
              all[i].key # envVariables[n] /\ all[i].value # envVariables[n] }
  IN  Unresolved(VariablesOf(contentBefore))

MaxLines == 3

\* the lines of the line sequences: assignments of A (one with spaces around
\* it, one with a space between the key and the '='), of a key A is a prefix
\* of, of B, a comment, a blank line
LineChoices ==
  { Assign(KeyA, ValuePw), << " ", " " >> \o Assign(KeyA, ValueS3) \o << " " >>,
    KeyA \o << " ", "=" >> \o ValueS3,
    Assign(KeyA \o KeyB, ValuePw), Assign(KeyB, ValueS3), CommentLine, <<>> }

LineSequences ==
  UNION { [1..n -> LineChoices] : n \in 0..MaxLines }

UpdateInputs ==
  { [fn |-> "updateEnvironmentFileLines", lines |-> l, key |-> k, value |-> v] :
      l \in LineSequences, k \in {KeyA, KeyC}, v \in {ValuePw, << "v" >>} }

\* updateEnvironmentFileLines is applied to the arguments
UpdateLine ==
  /\ fnArg.fn = "updateEnvironmentFileLines"
  /\ fnRes = NoCall
  /\ fnRes' = [fn |-> fnArg.fn, calls |-> 1, given |-> fnArg.lines,
               lines |-> updateEnvironmentFileLines(fnArg.lines, fnArg.key, fnArg.value)]
  /\ UNCHANGED << outsideFn, fnArg >>

\* updateEnvironmentFileLines is applied to its own result, with the same
\* key and value
UpdateLineAgain ==
  /\ fnRes.fn = "updateEnvironmentFileLines"
  /\ fnRes.calls = 1
  /\ fnRes' = [fn |-> fnArg.fn, calls |-> 2, given |-> fnRes.lines,
               lines |-> updateEnvironmentFileLines(fnRes.lines, fnArg.key, fnArg.value)]
  /\ UNCHANGED << outsideFn, fnArg >>

\* the arguments of encryptMultiple: values with a plaintext repeated, with
\* an empty value in the middle, and a secret that is or is not usable
EncryptMultipleInputs ==
  { [fn |-> "encryptMultiple", values |-> v, secret |-> s] :
      v \in { << ValuePw, ValuePw >>, << ValuePw, ValueS3, ValuePw >>,
              << ValuePw, <<>>, ValuePw >> },
      s \in { SecretA, SecretB, ShortSecret } }

\* the loop of encryptMultiple: the next value is encrypted, with the salt
\* and the IV the generators return to this call; a call that throws ends
\* the loop
EncryptNextValue(saltSeed, ivSeed) ==
  LET Next(results, draws) ==
        /\ Len(results) < Len(fnArg.values)
        /\ \A i \in 1..Len(results) : results[i].ok
        /\ fnRes' = [fn |-> fnArg.fn,
                     results |-> Append(results,
                       encrypt(fnArg.values[Len(results) + 1], fnArg.secret,
                               saltSeed, ivSeed)),
                     draws |-> Append(draws, [salt |-> saltSeed, iv |-> ivSeed])]
  IN  /\ fnArg.fn = "encryptMultiple"
      /\ IF fnRes = NoCall THEN Next(<<>>, <<>>) ELSE Next(fnRes.results, fnRes.draws)
      /\ UNCHANGED << outsideFn, fnArg >>

\* salts handed to deriveKeysWithArgon2: of 32 bytes as encrypt generates
\* them, of 16, 33 and 4 bytes, not base64, and empty
SaltChoices ==
  { Base64Encode(RandomBytes(0, n)) : n \in { SALT, 16, SALT + 1, 4 } }
    \cup { << "!", "!", "!", "!" >>, <<>> }

DeriveKeysInputs ==
  { [fn |-> "deriveKeysWithArgon2", secretKey |-> k, salt |-> salt] :
      k \in ValidSecrets, salt \in SaltChoices }

\* deriveKeysWithArgon2 is applied to the arguments
DeriveKeys ==
  /\ fnArg.fn = "deriveKeysWithArgon2"
  /\ fnRes = NoCall
  /\ fnRes' = [fn |-> fnArg.fn,
               result |-> deriveKeysWithArgon2(fnArg.secretKey, fnArg.salt)]
  /\ UNCHANGED << outsideFn, fnArg >>

\* a record in the wire format whose salt is the given one: the value
\* encrypted and authenticated under the keys derived from that salt
RecordWithSalt(value, secretKey, salt, ivSeed) ==
  LET Build(keys) ==
        createEncryptedPayload(value, salt, generateWebCryptoIV(ivSeed),
                               keys.value.encryptionKey, keys.value.hmacKey)
  IN  Build(deriveKeysWithArgon2(secretKey, salt))

\* records handed to decrypt: with a salt of 32, of 16 and of 33 bytes
DecryptInputs ==
  { [fn |-> "decrypt",
     encryptedData |-> RecordWithSalt(ValuePw, SecretA,
                                      Base64Encode(RandomBytes(0, n)), NumSalts),
     secret |-> s] :
      n \in { SALT, 16, SALT + 1 }, s \in ValidSecrets }

\* decrypt is applied to the arguments
DecryptRecord ==
  /\ fnArg.fn = "decrypt"
  /\ fnRes = NoCall
  /\ fnRes' = [fn |-> fnArg.fn, result |-> decrypt(fnArg.encryptedData, fnArg.secret)]
  /\ UNCHANGED << outsideFn, fnArg >>

\* the strings handed to isEncrypted have 0 .. MaxFields fields
MaxFields == 5

\* the fields: base64 with padding, empty, of a length that is no multiple
\* of 4, with three trailing '=', with a character outside the alphabet
FieldChoices ==
  { << "Q", "Q", "=", "=" >>, <<>>, << "Q", "U", "J" >>,
    << "Q", "=", "=", "=" >>, << "Q", "U", "!", "D" >> }

FieldSequences == UNION { [1..n -> FieldChoices] : n \in 0..MaxFields }

\* with the prefix and without it; plaintexts, the empty string included
IsEncryptedInputs ==
  { [fn |-> "isEncrypted", text |-> prefix \o Join(fields, SEPARATOR)] :
      prefix \in { PREFIX, <<>> }, fields \in FieldSequences }
    \cup { [fn |-> "isEncrypted", text |-> text] : text \in PlainTexts }

\* isEncrypted is applied to the argument
IsEncryptedCall ==
  /\ fnArg.fn = "isEncrypted"
  /\ fnRes = NoCall
  /\ fnRes' = [fn |-> fnArg.fn, result |-> isEncrypted(fnArg.text)]
  /\ UNCHANGED << outsideFn, fnArg >>

\* the lines handed to extractEnvironmentVariables: blank, a comment,
\* without '=', with a key that starts with a digit, without key, three
\* assignments of A (one with spaces around the key and the line), one of B
\* and one of a key that matches the identifier pattern and is __proto__
ExtractLineChoices ==
  { <<>>, << " " >>, CommentLine, << "j", "u", "n", "k" >>,
    << "1", "X", "=", "n", "o" >>, << "=", "v" >>,
    Assign(KeyA, ValuePw), Assign(KeyA, <<>>),
    << " " >> \o KeyA \o << " ", "=" >> \o ValueS3 \o << " " >>,
    Assign(KeyB, ValueS3), Assign(ProtoKey, ValuePw) }

ExtractInputs ==
  { [fn |-> "extractEnvironmentVariables", lines |-> l] :
      l \in UNION { [1..n -> ExtractLineChoices] : n \in 0..MaxLines } }

\* extractEnvironmentVariables is applied to the lines
ExtractVariables ==
  /\ fnArg.fn = "extractEnvironmentVariables"
  /\ fnRes = NoCall
  /\ fnRes' = [fn |-> fnArg.fn, variables |-> extractEnvironmentVariables(fnArg.lines)]
  /\ UNCHANGED << outsideFn, fnArg >>

\* the tags handed to constantTimeCompare have 0 .. MaxTagLen characters
MaxTagLen == 3

Tags == UNION { [1..n -> { "a", "b" }] : n \in 0..MaxTagLen }

CompareInputs ==
  { [fn |-> "constantTimeCompare", firstValue |-> a, secondValue |-> b] :
      a \in Tags, b \in Tags }

\* a loop that stops at the first mismatching position
loopContinues_UntilMismatch(i, length, comparisonResult) ==
  i < length /\ comparisonResult = 0

\* the condition of the for loop of constantTimeCompare
loopContinues(i, length, comparisonResult) == i < length

\* constantTimeCompare is entered: the lengths are compared
CompareLengths ==
  /\ fnArg.fn = "constantTimeCompare"
  /\ fnRes = NoCall
  /\ fnRes' = IF Len(fnArg.firstValue) # Len(fnArg.secondValue)
              THEN [fn |-> fnArg.fn, pc |-> "returned", i |-> 0,
                    comparisonResult |-> 0, steps |-> 0, result |-> FALSE]
              ELSE [fn |-> fnArg.fn, pc |-> "loop", i |-> 0,
                    comparisonResult |-> 0, steps |-> 0, result |-> FALSE]
  /\ UNCHANGED << outsideFn, fnArg >>

\* one iteration of the loop: position i (counted from 0) is examined
CompareStep ==
  /\ fnRes.fn = "constantTimeCompare"
  /\ fnRes.pc = "loop"
  /\ loopContinues(fnRes.i, Len(fnArg.firstValue), fnRes.comparisonResult)
  /\ fnRes' = [fnRes EXCEPT
       !.comparisonResult =
          BitOr(@, BitXor(CharCode(fnArg.firstValue[fnRes.i + 1]),
                          CharCode(fnArg.secondValue[fnRes.i + 1]))),
       !.i = @ + 1,
       !.steps = @ + 1]
  /\ UNCHANGED << outsideFn, fnArg >>

\* the loop is over: comparisonResult === 0 is returned
CompareReturn ==
  /\ fnRes.fn = "constantTimeCompare"
  /\ fnRes.pc = "loop"
  /\ ~loopContinues(fnRes.i, Len(fnArg.firstValue), fnRes.comparisonResult)
  /\ fnRes' = [fnRes EXCEPT !.pc = "returned", !.result = (fnRes.comparisonResult = 0)]
  /\ UNCHANGED << outsideFn, fnArg >>

FnInputs ==
  UpdateInputs \cup EncryptMultipleInputs \cup DeriveKeysInputs \cup DecryptInputs
    \cup IsEncryptedInputs \cup CompareInputs \cup ExtractInputs

FnInit ==
  /\ stored = <<>>
  /\ CryptoIdle
  /\ content = <<>>
  /\ RunIdle
  /\ fnArg \in FnInputs
  /\ fnRes = NoCall
  /\ ConcIdle
  /\ UtilitiesIdle

FnNext ==
  \/ UpdateLine
  \/ UpdateLineAgain
  \/ \E saltSeed \in SaltSeeds, ivSeed \in IvSeeds : EncryptNextValue(saltSeed, ivSeed)
  \/ DeriveKeys
  \/ DecryptRecord
  \/ IsEncryptedCall
  \/ CompareLengths
  \/ CompareStep
  \/ CompareReturn
  \/ ExtractVariables

FnSpec == FnInit /\ [][FnNext]_vars

\* updateEnvironmentFileLines was applied once to the arguments
UpdatedOnce == fnRes.fn = "updateEnvironmentFileLines" /\ fnRes.calls = 1

\* the lines of the arguments whose trimmed form starts with "<key>="
MatchingLines ==
  { i \in 1..Len(fnArg.lines) :
      StartsWith(Trim(fnArg.lines[i]), fnArg.key \o << "=" >>) }

\* C12, as stated: in the result of updateEnvironmentFileLines at most one
\* line differs from the input, and every line after the first one that
\* starts with "<key>=" is returned unchanged.
C12_ReplacesFirstLineOnly ==
  (UpdatedOnce /\ MatchingLines # {}) =>
    /\ Len(fnRes.lines) = Len(fnArg.lines)
    /\ Cardinality({ i \in 1..Len(fnArg.lines) : fnRes.lines[i] # fnArg.lines[i] }) <= 1
    /\ \A i \in MatchingLines :
         (\E j \in MatchingLines : j < i) => fnRes.lines[i] = fnArg.lines[i]

\* C12, amended: updateEnvironmentFileLines replaces every line whose trimmed
\* form starts with "<key>=" by "<key>=<value>" and returns every other line
\* unchanged, in place; when no line starts with "<key>=" it returns the
\* input with "<key>=<value>" appended.
C12_ReplacesEveryMatchingLine ==
  UpdatedOnce =>
    IF MatchingLines = {}
    THEN fnRes.lines = Append(fnArg.lines, Assign(fnArg.key, fnArg.value))
    ELSE /\ Len(fnRes.lines) = Len(fnArg.lines)
         /\ \A i \in 1..Len(fnArg.lines) :
              fnRes.lines[i] = IF i \in MatchingLines
                               THEN Assign(fnArg.key, fnArg.value)
                               ELSE fnArg.lines[i]

C12_Witness ==
  /\ UpdatedOnce
  /\ Cardinality(MatchingLines) = 2
  /\ Len(fnArg.lines) = MaxLines
  /\ Cardinality({ i \in 1..Len(fnArg.lines) : fnRes.lines[i] # fnArg.lines[i] }) = 2

\* the fields of a record: what follows the prefix, split on the separator
FieldsOf(record) == Split(SubSeq(record, Len(PREFIX) + 1, Len(record)), SEPARATOR)

\* C18: the wire format of every encrypt result.  Each string encrypt
\* returns starts with ENC2: and continues with exactly four non-empty fields
\* separated by ':', each valid base64, in the order salt, iv, cipherText,
\* mac: the first decodes to 32 bytes, the second to 12, the third to the
\* bytes of the plaintext plus the authentication tag, the fourth to 32 bytes
\* and is the signature of the first three under the key derived from the
\* secret and the first; isEncrypted is true of the string.
C18_WireFormat ==
  encrypted.ok =>
    LET Format(fields) ==
          /\ Len(fields) = EXPECTED_PARTS
          /\ \A i \in 1..Len(fields) : fields[i] # <<>> /\ isValidBase64(fields[i])
          /\ Len(Base64Decode(fields[1])) = SALT
          /\ Len(Base64Decode(fields[2])) = WEB_CRYPTO_IV
          /\ Len(Base64Decode(fields[3])) = Len(TextEncode(plain)) + GCM_TAG_LENGTH
          /\ Len(Base64Decode(fields[4])) = HMAC_KEY_LENGTH
          /\ fields[1] \in { generateBase64Salt(seed) : seed \in SaltSeeds }
          /\ fields[2] \in { Base64Encode(generateWebCryptoIV(seed)) : seed \in IvSeeds }
          /\ verifyHMAC(fields[1], fields[2], fields[3], fields[4],
                        deriveKeysWithArgon2(encryptedWith, fields[1]).value.hmacKey).ok
    IN  /\ StartsWith(encrypted.value, PREFIX)
        /\ Format(FieldsOf(encrypted.value))
        /\ isEncrypted(encrypted.value)

C18_Witness ==
  /\ op = "encrypt"
  /\ encrypted.ok
  /\ Len(plain) = MaxPlainLen
  /\ isEncrypted(encrypted.value)
  /\ Len(FieldsOf(encrypted.value)) = EXPECTED_PARTS

\* C16: every encrypt call has its own salt and IV and its keys derived from
\* its own salt.  The record a call returns carries the salt and the IV the
\* generators returned to that very call, it authenticates and decrypts to
\* the value under the keys derived from that salt, and two calls with the
\* same plaintext and secret return different strings whenever the
\* generators returned a different salt or IV to them.
C16_FreshSaltAndIvPerCall ==
  fnRes.fn = "encryptMultiple" =>
    /\ \A i \in 1..Len(fnRes.results) :
         fnRes.results[i].ok =>
           LET Carries(parsed, back) ==
                 /\ parsed.ok
                 /\ parsed.value.salt = generateBase64Salt(fnRes.draws[i].salt)
                 /\ parsed.value.iv = Base64Encode(generateWebCryptoIV(fnRes.draws[i].iv))
                 /\ back.ok
                 /\ back.hmac = "verified"
                 /\ back.value = fnArg.values[i]
           IN  Carries(parseEncryptedData(fnRes.results[i].value),
                       decrypt(fnRes.results[i].value, fnArg.secret))
    /\ \A i, j \in 1..Len(fnRes.results) :
         ( /\ i < j
           /\ fnRes.results[i].ok
           /\ fnRes.results[j].ok
           /\ fnArg.values[i] = fnArg.values[j]
           /\ fnRes.draws[i] # fnRes.draws[j] )
         => fnRes.results[i].value # fnRes.results[j].value

C16_Witness ==
  /\ fnRes.fn = "encryptMultiple"
  /\ Len(fnRes.results) = 2
  /\ fnArg.values[1] = fnArg.values[2]
  /\ fnRes.results[1].ok
  /\ fnRes.results[2].ok
  /\ fnRes.draws[1] # fnRes.draws[2]
  /\ fnRes.results[1].value # fnRes.results[2].value

\* the salt is base64 and decodes to exactly SALT bytes
SaltOfRightLength(salt) ==
  salt # <<>> /\ isValidBase64(salt) /\ Len(Base64Decode(salt)) = SALT

\* C17: key derivation rejects bad salts.  deriveKeysWithArgon2 fails with
\* the invalid-salt error (raised by the validation, before the hash is
\* called) whenever the salt is not valid base64 or does not decode to
\* exactly 32 bytes, and decrypt fails on every well-formed record whose
\* salt decodes to another length.
C17_BadSaltRejected ==
  /\ ( fnRes.fn = "deriveKeysWithArgon2" /\ ~SaltOfRightLength(fnArg.salt) )
      => ( ~fnRes.result.ok /\ fnRes.result.error = "InvalidSalt" )
  /\ fnRes.fn = "decrypt" =>
       LET Rejects(parsed) ==
             ( parsed.ok /\ ~SaltOfRightLength(parsed.value.salt) ) => ~fnRes.result.ok
       IN  Rejects(parseEncryptedData(fnArg.encryptedData))

\* the characters of the field are of the base64 alphabet but for at most
\* two '=' at its end, and their number is a multiple of 4
WellFormedField(field) ==
  /\ Len(field) % 4 = 0
  /\ \A i \in 1..Len(field) :
       \/ field[i] \in Base64Chars
       \/ /\ field[i] = "="
          /\ i >= Len(field) - 1
          /\ \A j \in i..Len(field) : field[j] = "="

\* C19: isEncrypted returns a boolean on every string.  It is false for a
\* string without the ENC2: prefix, for a string with the prefix whose
\* remainder does not split on ':' into exactly 4 parts, for one with an
\* empty part and for one with a part that is not valid base64; it is true
\* of every other string.
C19_FormatRejection ==
  fnRes.fn = "isEncrypted" =>
    LET Decides(text, fields) ==
          /\ fnRes.result \in BOOLEAN
          /\ ~StartsWith(text, PREFIX) => ~fnRes.result
          /\ (StartsWith(text, PREFIX) /\ Len(fields) # EXPECTED_PARTS) => ~fnRes.result
          /\ (StartsWith(text, PREFIX) /\ \E i \in 1..Len(fields) : fields[i] = <<>>)
               => ~fnRes.result
          /\ (StartsWith(text, PREFIX)
                /\ \E i \in 1..Len(fields) : ~WellFormedField(fields[i]))
               => ~fnRes.result
          /\ ( /\ StartsWith(text, PREFIX)
               /\ Len(fields) = EXPECTED_PARTS
               /\ \A i \in 1..Len(fields) :
                    fields[i] # <<>> /\ WellFormedField(fields[i]) )
               => fnRes.result
    IN  Decides(fnArg.text, FieldsOf(fnArg.text))

C19_Witness ==
  /\ fnRes.fn = "isEncrypted"
  /\ ~fnRes.result
  /\ StartsWith(fnArg.text, PREFIX)
  /\ Len(FieldsOf(fnArg.text)) = EXPECTED_PARTS
  /\ \E i \in 1..EXPECTED_PARTS : Len(FieldsOf(fnArg.text)[i]) = 3
  /\ \A i \in 1..EXPECTED_PARTS :
       Len(FieldsOf(fnArg.text)[i]) = 3 \/ WellFormedField(FieldsOf(fnArg.text)[i])
  /\ \A i \in 1..EXPECTED_PARTS : FieldsOf(fnArg.text)[i] # <<>>

\* updateEnvironmentFileLines was applied to its own result
UpdatedTwice == fnRes.fn = "updateEnvironmentFileLines" /\ fnRes.calls = 2

\* C20: updateEnvironmentFileLines is idempotent.  For all line sequences,
\* keys of the file format and values, applying it with the same key and
\* value to its own result returns that result unchanged, both when a line
\* of the key was there and when the first call appended one.
C20_UpdateIdempotent ==
  UpdatedTwice =>
    /\ fnRes.lines = fnRes.given
    /\ fnRes.given = updateEnvironmentFileLines(fnArg.lines, fnArg.key, fnArg.value)

C20_Witness ==
  /\ UpdatedTwice
  /\ Len(fnArg.lines) = MaxLines
  /\ \A i \in 1..Len(fnArg.lines) :
       ~StartsWith(Trim(fnArg.lines[i]), fnArg.key \o << "=" >>)
  /\ Len(fnRes.given) = Len(fnArg.lines) + 1
  /\ fnRes.lines = fnRes.given

\* constantTimeCompare has returned
CompareReturned == fnRes.fn = "constantTimeCompare" /\ fnRes.pc = "returned"

\* C22: the comparison of verifyHMAC is constant-time.  It returns true
\* exactly when the two tags are equal, and for two tags of the same length
\* it has examined every position when it returns: the number of its steps
\* is the length of the tags, wherever the first mismatching position is.
C22_ConstantTimeCompare ==
  CompareReturned =>
    /\ fnRes.result = (fnArg.firstValue = fnArg.secondValue)
    /\ fnRes.result = constantTimeCompare(fnArg.firstValue, fnArg.secondValue)
    /\ Len(fnArg.firstValue) = Len(fnArg.secondValue)
         => fnRes.steps = Len(fnArg.firstValue)

C22_Witness ==
  /\ CompareReturned
  /\ Len(fnArg.firstValue) = MaxTagLen
  /\ Len(fnArg.secondValue) = MaxTagLen
  /\ fnArg.firstValue[1] # fnArg.secondValue[1]
  /\ ~fnRes.result
  /\ fnRes.steps = MaxTagLen

\* the value the variables give to key (none when they have no such key)
Lookup(variables, key) ==
  IF \E i \in 1..Len(variables) : variables[i].key = key
  THEN [found |-> TRUE,
        value |-> variables[CHOOSE i \in 1..Len(variables) : variables[i].key = key].value]
  ELSE [found |-> FALSE, value |-> <<>>]

\* C25: put-get between updateEnvironmentFileLines and
\* extractEnvironmentVariables.  For every line sequence, key and value, the
\* variables extracted from the updated lines give the value to the key,
\* also when the lines held several assignments of the key in different
\* shapes.
C25_PutGet ==
  UpdatedOnce =>
    Lookup(extractEnvironmentVariables(fnRes.lines), fnArg.key)
      = [found |-> TRUE, value |-> fnArg.value]

\* what is before and what is after the first '=' of the trimmed line
KeyPart(line) == Trim(SubSeq(Trim(line), 1, IndexOf(Trim(line), "=") - 1))
ValuePart(line) == SubSeq(Trim(line), IndexOf(Trim(line), "=") + 1, Len(Trim(line)))

\* the line is neither blank nor a comment, holds a '=' and has a key that
\* matches the identifier pattern
WellFormedAssignment(line) ==
  /\ Trim(line) # <<>>
  /\ Trim(line)[1] # "#"
  /\ IndexOf(Trim(line), "=") > 0
  /\ MatchesKeyPattern(KeyPart(line))

\* C27: extractEnvironmentVariables returns a map for every line sequence.
\* The map has one entry for each key of a well-formed assignment and no
\* other entry: blank lines, comments, lines without '=' and lines whose key
\* fails the identifier pattern give none, and the value of a key is the
\* value of the last line that assigns it.
C27_ExtractLastValueWins ==
  fnRes.fn = "extractEnvironmentVariables" =>
    LET lines == fnArg.lines
        variables == fnRes.variables
        Assigning(key) ==
          { i \in 1..Len(lines) : WellFormedAssignment(lines[i]) /\ KeyPart(lines[i]) = key }
        Last(S) == CHOOSE i \in S : \A j \in S : j <= i
    IN  /\ \A i \in 1..Len(lines) :
             WellFormedAssignment(lines[i]) =>
               Lookup(variables, KeyPart(lines[i]))
                 = [found |-> TRUE,
                    value |-> ValuePart(lines[Last(Assigning(KeyPart(lines[i])))])]
        /\ \A n \in 1..Len(variables) : Assigning(variables[n].key) # {}
        /\ \A n, m \in 1..Len(variables) : variables[n].key = variables[m].key => n = m

(***************************************************************************)
(* Two runs of encryptAndUpdateEnvironmentVariables on one file            *)
(* (ConcurrentSpec): a run yields at every await, so that the steps of     *)
(* the two runs interleave                                                 *)
(***************************************************************************)

\* the envVariables argument of a concurrent run
ConcNames == { << KeyA >>, << KeyB >>, <<>> }

\* a run that writes the lines of the file as it is now, with the lines of
\* the variables it changed replaced
linesToWrite_Merged(local, currentContent) ==
  LET Merge(current) ==
        [i \in 1..Len(current) |->
           IF AssignsOneOf(current[i], local.changed)
           THEN Assign(parseEnvironmentLine(current[i])[1],
                       ValueIn(writeEnvironmentFileLines(local.updatedLines),
                               parseEnvironmentLine(current[i])[1]))
           ELSE current[i]]
  IN  Merge(readEnvironmentFileAsLines(currentContent))

\* the lines a run hands to writeEnvironmentFileLines: the lines it read,
\* as it updated them in memory, whatever the file holds by now
linesToWrite(local, currentContent) == local.updatedLines

\* run r reads the file, extracts the variables and selects
ConcStart(r, names) ==
  LET Start(lines, allEnvVariables, resolved) ==
        runs' = [runs EXCEPT ![r] =
          IF allEnvVariables = <<>> \/ resolved.variablesToEncrypt = <<>>
          THEN [NotStarted EXCEPT !.pc = "done", !.envVariables = names,
                                  !.read = content]
          ELSE [pc |-> "loop", envVariables |-> names, read |-> content,
                variablesToEncrypt |-> resolved.variablesToEncrypt, idx |-> 1,
                updatedLines |-> lines, changed |-> {}]]
      Resolve(lines, allEnvVariables) ==
        Start(lines, allEnvVariables, resolveVariablesToEncrypt(allEnvVariables, names))
      Extract(lines) == Resolve(lines, extractEnvironmentVariables(lines))
  IN  /\ runs[r].pc = "idle"
      /\ Extract(readEnvironmentFileAsLines(content))
      /\ UNCHANGED << outsideConc, stored, content, writeLog >>

\* run r processes its next selected variable (without rotation)
ConcProcess(r, saltSeed, ivSeed) ==
  /\ runs[r].pc = "loop"
  /\ runs[r].idx <= Len(runs[r].variablesToEncrypt)
  /\ LET Step(entry, result) ==
           runs' = [runs EXCEPT ![r] =
             IF result.outcome = "failed" THEN [@ EXCEPT !.pc = "failed"]
             ELSE [@ EXCEPT !.idx = @ + 1,
                            !.updatedLines = result.updatedLines,
                            !.changed = IF result.outcome = "encrypted"
                                        THEN @ \cup {entry.key} ELSE @]]
         Entry(entry) ==
           Step(entry, processVariable(runs[r].updatedLines, entry.key, entry.value,
                                       stored, FALSE, saltSeed, ivSeed))
     IN  Entry(runs[r].variablesToEncrypt[runs[r].idx])
  /\ UNCHANGED << outsideConc, stored, content, writeLog >>

\* run r is through its loop: it writes the file if it encrypted a variable
ConcWrite(r) ==
  /\ runs[r].pc = "loop"
  /\ runs[r].idx > Len(runs[r].variablesToEncrypt)
  /\ IF runs[r].changed # {}
     THEN /\ content' = writeEnvironmentFileLines(linesToWrite(runs[r], content))
          /\ writeLog' = Append(writeLog, r)
     ELSE UNCHANGED << content, writeLog >>
  /\ runs' = [runs EXCEPT ![r].pc = "done"]
  /\ UNCHANGED << outsideConc, stored >>

ConcInit ==
  /\ stored = SecretA
  /\ CryptoIdle
  /\ content = FilePlain
  /\ RunIdle
  /\ FnIdle
  /\ ConcIdle
  /\ UtilitiesIdle

ConcNext ==
  \/ \E r \in RunIds, names \in ConcNames : ConcStart(r, names)
  \/ \E r \in RunIds, saltSeed \in SaltSeeds, ivSeed \in IvSeeds :
       ConcProcess(r, saltSeed, ivSeed)
  \/ \E r \in RunIds : ConcWrite(r)

ConcurrentSpec == ConcInit /\ [][ConcNext]_vars

\* both runs are done, first wrote the file and then last did
WroteInOrder(first, last) ==
  /\ runs[first].pc = "done"
  /\ runs[last].pc = "done"
  /\ writeLog = << first, last >>

\* C15: the last of two writes decides the file.  When the run that writes
\* last read the file before the other run wrote it, the file ends up as the
\* lines the last writer held in memory, and every variable the other run
\* encrypted that the last writer did not encrypt itself is in the file in
\* plaintext, as it was read; when it read the file after the other run's
\* write, every variable either run encrypted is encrypted in the file.
C15_LastWriterWins ==
  \A first, last \in RunIds :
    WroteInOrder(first, last) =>
      /\ content = writeEnvironmentFileLines(runs[last].updatedLines)
      /\ \A key \in runs[first].changed \ runs[last].changed :
           IF runs[last].read = runs[first].read
           THEN /\ ValueIn(content, key) = ValueIn(runs[first].read, key)
                /\ ~isAlreadyEncrypted(ValueIn(content, key))
           ELSE isEncrypted(ValueIn(content, key))
      /\ \A key \in runs[last].changed : isEncrypted(ValueIn(content, key))

C15_Witness ==
  /\ WroteInOrder(1, 2)
  /\ runs[1].changed = { KeyA }
  /\ runs[2].changed = { KeyB }
  /\ runs[2].read = runs[1].read
  /\ ValueIn(content, KeyA) = ValuePw
  /\ isEncrypted(ValueIn(content, KeyB))

(***************************************************************************)
(* EnvironmentConfigManager: initialize and reload (ManagerSpec)           *)
(***************************************************************************)

\* the environment stages EnvironmentDetector.getCurrentStage can return
EnvironmentStages == { "dev", "uat", "prod" }

\* path.basename of the base environment file and of the file of a stage
BaseEnvFile == "base"
EnvironmentFilePaths(env) == env

\* what loading a file can come to: it is there and dotenv loads it, it is
\* not there (and not required), or the load throws
LoadOutcomes == { "loaded", "absent", "failed" }

\* captureState
captureState(m) ==
  [initialized |-> m.initialized, loadedFiles |-> m.loadedFiles,
   activeEnvironment |-> m.activeEnvironment]

\* a rollback that leaves the manager as the failed initialize left it
restoreState_KeepsReset(m, state) == m

\* restoreState
restoreState(m, state) ==
  [initialized |-> state.initialized, loadedFiles |-> state.loadedFiles,
   activeEnvironment |-> state.activeEnvironment]

\* the catch block of initialize resets the state and rethrows; when
\* initialize was called by reload, the catch block of reload restores the
\* captured state and rethrows
ThrowFromInitialize ==
  /\ manager' = IF mcall.op = "reload"
                THEN restoreState(resetState, mcall.previousState)
                ELSE resetState
  /\ mcall' = [mcall EXCEPT !.pc = "idle", !.outcome = "threw"]

\* initialize has set activeEnvironment and initialized, and returns
ReturnFromInitialize(stage) ==
  /\ manager' = [manager EXCEPT !.activeEnvironment = stage, !.initialized = TRUE]
  /\ mcall' = [mcall EXCEPT !.pc = "idle", !.outcome = "returned"]

\* a call of initialize(): skipped when the manager is initialized
InitializeCall ==
  /\ mcall.pc = "idle"
  /\ IF manager.initialized
     THEN /\ mcall' = [op |-> "initialize", pc |-> "idle",
                       previousState |-> resetState, outcome |-> "returned"]
          /\ UNCHANGED manager
     ELSE /\ mcall' = [op |-> "initialize", pc |-> "initialize",
                       previousState |-> resetState, outcome |-> "none"]
          /\ UNCHANGED manager
  /\ UNCHANGED outsideManager

\* a call of reload(): the state is captured and reset, initialize is called
ReloadCall ==
  /\ mcall.pc = "idle"
  /\ mcall' = [op |-> "reload", pc |-> "initialize",
               previousState |-> captureState(manager), outcome |-> "none"]
  /\ manager' = resetState
  /\ UNCHANGED outsideManager

\* initialize on a manager that is not initialized: in CI it returns at once
EnterInitialize(isCI, stage) ==
  /\ mcall.pc = "initialize"
  /\ IF isCI
     THEN ReturnFromInitialize(stage)
     ELSE /\ mcall' = [mcall EXCEPT !.pc = "loadBaseEnvironment"]
          /\ UNCHANGED manager
  /\ UNCHANGED outsideManager

\* loadBaseEnvironment
LoadBaseEnvironment(outcome) ==
  /\ mcall.pc = "loadBaseEnvironment"
  /\ IF outcome = "failed" THEN ThrowFromInitialize
     ELSE /\ manager' = IF outcome = "loaded"
                        THEN [manager EXCEPT !.loadedFiles = Append(@, BaseEnvFile)]
                        ELSE manager
          /\ mcall' = [mcall EXCEPT !.pc = "loadEnvironmentSpecificConfig"]
  /\ UNCHANGED outsideManager

\* loadEnvironmentSpecificConfig, for the stage getCurrentStage returns
LoadEnvironmentSpecificConfig(env, outcome) ==
  /\ mcall.pc = "loadEnvironmentSpecificConfig"
  /\ IF outcome = "failed" THEN ThrowFromInitialize
     ELSE /\ manager' = IF outcome = "loaded"
                        THEN [manager EXCEPT
                                !.loadedFiles = Append(@, EnvironmentFilePaths(env))]
                        ELSE manager
          /\ mcall' = [mcall EXCEPT !.pc = "validateRequiredVariables"]
  /\ UNCHANGED outsideManager

\* validateRequiredVariablesIfSpecified and the end of initialize
ValidateRequiredVariables(present, stage) ==
  /\ mcall.pc = "validateRequiredVariables"
  /\ IF present THEN ReturnFromInitialize(stage) ELSE ThrowFromInitialize
  /\ UNCHANGED outsideManager

ManagerInit ==
  /\ stored = <<>>
  /\ CryptoIdle
  /\ content = <<>>
  /\ RunIdle
  /\ FnIdle
  /\ ConcIdle
  /\ UtilitiesIdle

ManagerNext ==
  \/ InitializeCall
  \/ ReloadCall
  \/ \E isCI \in BOOLEAN, stage \in EnvironmentStages : EnterInitialize(isCI, stage)
  \/ \E outcome \in LoadOutcomes : LoadBaseEnvironment(outcome)
  \/ \E env \in EnvironmentStages, outcome \in LoadOutcomes :
       LoadEnvironmentSpecificConfig(env, outcome)
  \/ \E present \in BOOLEAN, stage \in EnvironmentStages :
       ValidateRequiredVariables(present, stage)

ManagerSpec == ManagerInit /\ [][ManagerNext]_vars

\* C28: reload rolls back.  When reload has failed, it has rethrown the
\* error and the manager has the initialized flag, the loaded files and the
\* active environment it had when reload was called.
C28_ReloadRollback ==
  (mcall.op = "reload" /\ mcall.outcome = "threw") =>
    /\ mcall.pc = "idle"
    /\ manager.initialized = mcall.previousState.initialized
    /\ manager.loadedFiles = mcall.previousState.loadedFiles
    /\ manager.activeEnvironment = mcall.previousState.activeEnvironment

C28_Witness ==
  /\ mcall.op = "reload"
  /\ mcall.outcome = "threw"
  /\ manager.initialized
  /\ Len(manager.loadedFiles) = 2
  /\ manager.activeEnvironment = "uat"
  /\ manager = mcall.previousState

(***************************************************************************)
(* AuthStorageManager.initializeEmptyAuthStateFile (AuthSpec)              *)
(***************************************************************************)

\* the call returns: result is what it returns, resetSeen whether the file
\* has been reset at that moment
AuthReturn(c, result, file) ==
  authCalls' = [authCalls EXCEPT ![c] =
                  [pc |-> "returned", result |-> result, resetSeen |-> file # <<>>]]

\* the catch block: the flag is cleared and the call returns false
AuthFail(c) ==
  /\ hasBeenReset' = FALSE
  /\ AuthReturn(c, "false", authFile)
  /\ UNCHANGED authFile

\* the call starts and runs to its first await: it returns true when the
\* flag is set, and sets the flag otherwise
AuthEnter(c) ==
  /\ authCalls[c].pc = "idle"
  /\ IF hasBeenReset
     THEN /\ AuthReturn(c, "true", authFile)
          /\ UNCHANGED << hasBeenReset, authFile >>
     ELSE /\ hasBeenReset' = TRUE
          /\ authCalls' = [authCalls EXCEPT ![c].pc = "createAuthDirectoryIfNeeded"]
          /\ UNCHANGED authFile
  /\ UNCHANGED outsideAuth

\* await createAuthDirectoryIfNeeded() settles
AuthCreateDirectory(c, created) ==
  /\ authCalls[c].pc = "createAuthDirectoryIfNeeded"
  /\ IF created
     THEN /\ authCalls' = [authCalls EXCEPT ![c].pc = "writeFile"]
          /\ UNCHANGED << hasBeenReset, authFile >>
     ELSE AuthFail(c)
  /\ UNCHANGED outsideAuth

\* await FileSystemManager.writeFile(filePath, '{}') settles
AuthWriteFile(c, written) ==
  /\ authCalls[c].pc = "writeFile"
  /\ IF written
     THEN /\ authFile' = Append(authFile, c)
          /\ AuthReturn(c, "true", Append(authFile, c))
          /\ UNCHANGED hasBeenReset
     ELSE AuthFail(c)
  /\ UNCHANGED outsideAuth

AuthInit ==
  /\ stored = <<>>
  /\ CryptoIdle
  /\ content = <<>>
  /\ RunIdle
  /\ FnIdle
  /\ ConcIdle
  /\ UtilitiesIdle

AuthNext ==
  \/ \E c \in AuthCallIds : AuthEnter(c)
  \/ \E c \in AuthCallIds, created \in BOOLEAN : AuthCreateDirectory(c, created)
  \/ \E c \in AuthCallIds, written \in BOOLEAN : AuthWriteFile(c, written)

AuthSpec == AuthInit /\ [][AuthNext]_vars

\* C29: the auth-state reset happens once.  Over overlapping calls the file
\* is reset at most once, and a call that has returned true either reset the
\* file itself or returned when the file had already been reset.
C29_ResetOnce ==
  /\ Len(authFile) <= 1
  /\ \A c \in AuthCallIds :
       authCalls[c].result = "true" => authCalls[c].resetSeen

(***************************************************************************)
(* SensitiveKeyCache.isSensitive (CacheSpec)                               *)
(***************************************************************************)

\* the cache limit; the source keeps 1000 entries, the model keeps the same
\* eviction rule with a limit that a run can reach
cacheSize == 2

\* the longest sensitiveKeys list a call passes
MaxSensitiveKeys == 2

\* String.prototype.toLowerCase, on the letters the inputs are made of
UpperToLower == [c \in { "P", "W", "D" } |->
                   IF c = "P" THEN "p" ELSE IF c = "W" THEN "w" ELSE "d"]
toLowerCase(str) ==
  [i \in 1..Len(str) |-> IF str[i] \in DOMAIN UpperToLower
                         THEN UpperToLower[str[i]] ELSE str[i]]

\* String.prototype.includes
includes(str, searchString) ==
  \E start \in 0..(Len(str) - Len(searchString)) :
    \A i \in 1..Len(searchString) : str[start + i] = searchString[i]

\* the decimal digits of a length below 100, as the template literal prints it
DecimalDigits == << "0", "1", "2", "3", "4", "5", "6", "7", "8", "9" >>
lengthToString(n) ==
  IF n < 10 THEN << DecimalDigits[n + 1] >>
  ELSE << DecimalDigits[(n \div 10) + 1], DecimalDigits[(n % 10) + 1] >>

\* `${key.toLowerCase()}_${sensitiveKeys.length}`
cacheKeyOf(key, sensitiveKeys) ==
  toLowerCase(key) \o << "_" >> \o lengthToString(Len(sensitiveKeys))

\* sensitiveKeys.some(sk => key.toLowerCase().includes(sk.toLowerCase()))
someIncluded(key, sensitiveKeys) ==
  \E i \in 1..Len(sensitiveKeys) :
    includes(toLowerCase(key), toLowerCase(sensitiveKeys[i]))

\* Map.has and Map.get on the cache, a sequence of entries in insertion order
cacheHas(cacheKey) == \E i \in 1..Len(cache) : cache[i].cacheKey = cacheKey
cacheGet(cacheKey) ==
  cache[CHOOSE i \in 1..Len(cache) : cache[i].cacheKey = cacheKey].value

\* the keys and the lists the calls are made with
CacheKeys == { << "p", "w" >>, << "P", "W" >>, << "i", "d" >> }
SensitiveKeyChoices == { << "p", "w" >>, << "D" >> }
SensitiveKeyLists ==
  UNION { [1..n -> SensitiveKeyChoices] : n \in 0..MaxSensitiveKeys }

\* isSensitive(key, sensitiveKeys)
isSensitive(key, sensitiveKeys) ==
  LET cacheKey == cacheKeyOf(key, sensitiveKeys)
  IN IF cacheHas(cacheKey)
     THEN /\ cacheCall' = [key |-> key, sensitiveKeys |-> sensitiveKeys,
                           result |-> cacheGet(cacheKey), called |-> TRUE]
          /\ UNCHANGED cache
     ELSE LET result == someIncluded(key, sensitiveKeys)
              kept == IF Len(cache) >= cacheSize THEN Tail(cache) ELSE cache
          IN /\ cache' = Append(kept, [cacheKey |-> cacheKey, value |-> result])
             /\ cacheCall' = [key |-> key, sensitiveKeys |-> sensitiveKeys,
                              result |-> result, called |-> TRUE]

IsSensitiveCall(key, sensitiveKeys) ==
  /\ isSensitive(key, sensitiveKeys)
  /\ UNCHANGED outsideCache

CacheInit ==
  /\ stored = <<>>
  /\ CryptoIdle
  /\ content = <<>>
  /\ RunIdle
  /\ FnIdle
  /\ ConcIdle
  /\ UtilitiesIdle

CacheNext ==
  \E key \in CacheKeys, sensitiveKeys \in SensitiveKeyLists :
    IsSensitiveCall(key, sensitiveKeys)

CacheSpec == CacheInit /\ [][CacheNext]_vars

\* C30: the cache is transparent.  Whatever calls came before, a call of
\* isSensitive returns true exactly when the key contains, without regard to
\* case, an element of the sensitiveKeys list of this call.
C30_CacheTransparent ==
  cacheCall.called =>
    (cacheCall.result = someIncluded(cacheCall.key, cacheCall.sensitiveKeys))

====
